---- MODULE Spec2Model ----
(***************************************************************************)
(* State-machine model of the top-down shooter in src/ggg/main.py.         *)
(*                                                                         *)
(* Units.  Time is in milliseconds (the frame time dt_ms of clock.tick is  *)
(* an integer number of milliseconds), positions and radii in pixels,      *)
(* velocities in pixels per second, and the two float multipliers of the   *)
(* player in thousandths.  Float arithmetic of the source is carried out   *)
(* in these fixed-point units with truncating division.                    *)
(***************************************************************************)
EXTENDS Integers, Sequences, FiniteSets, TLC

(***************************************************************************)
(* Program constants (Config section of main.py)                           *)
(***************************************************************************)
WINDOW_WIDTH == 960
WINDOW_HEIGHT == 540
PLAYER_SPEED == 280
PLAYER_RADIUS == 16
PLAYER_MAX_HEALTH == 5
BULLET_SPEED == 600
BULLET_RADIUS == 4
BULLET_COOLDOWN_SEC == 120
BULLET_LIFETIME_SEC == 1200
ENEMY_SPEED_MIN == 80
ENEMY_SPEED_MAX == 140
ENEMY_RADIUS == 14
ENEMY_SPAWN_EVERY_SEC == 1100
ENEMY_SPAWN_ACCEL_EVERY_SEC == 20000
ENEMY_SPAWN_ACCEL_FACTOR == 92
INVULN_ON_HIT_SEC == 600
LEVEL_KILLS_TO_BOSS_BASE == 30
LEVEL_KILLS_TO_BOSS_INC == 10
DODGE_INVULN_SEC == 200
MIN_SPAWN_INTERVAL == 250
BOSS_KILL_FACTOR == 95
LEVEL_TRANSITION_SEC == 1200
BOSS_BANNER_SEC == 1000
BOSS_RADIUS == 34
BOSS_BASE_HP == 280
BOSS_HP_PER_LEVEL == 120
BOSS_COINS == 14
BOSS_COIN_VALUE == 2
COIN_RADIUS == 6
ENEMY_BULLET_RADIUS == 3
ENEMY_BULLET_LIFETIME == 3000
BULLET_MARGIN == 50
ENEMY_BULLET_MARGIN == 20
EXPLOSION_LIFETIME == 300
PUSH_BACK == 12
PICKUP_MARGIN == 4
MAGNET_RADIUS_BASE == 60
MAGNET_PULL == 600
COIN_DRAG == 98
GOD_VALUE == 999

(***************************************************************************)
(* Arithmetic helpers                                                      *)
(***************************************************************************)
Max(a, b) == IF a >= b THEN a ELSE b
Min(a, b) == IF a <= b THEN a ELSE b

\* Division truncating toward zero (the fixed-point image of a float product).
IDiv(a, b) == IF a >= 0 THEN a \div b ELSE -((-a) \div b)

\* clamp(value, min_value, max_value), main.py line 53
clamp(value, min_value, max_value) == Max(min_value, Min(value, max_value))

RECURSIVE SqrtSearch(_, _, _)
SqrtSearch(n, lo, hi) ==
    IF lo >= hi THEN lo
    ELSE LET mid == (lo + hi + 1) \div 2
         IN  IF mid * mid <= n THEN SqrtSearch(n, mid, hi)
                               ELSE SqrtSearch(n, lo, mid - 1)

\* Integer square root, used for Vector2.length / normalize.
ISqrt(n) == SqrtSearch(n, 0, 46340)

Vec(x, y) == [x |-> x, y |-> y]
VAdd(a, b) == Vec(a.x + b.x, a.y + b.y)
VSub(a, b) == Vec(a.x - b.x, a.y - b.y)
length_squared(v) == v.x * v.x + v.y * v.y

\* v.normalize() * len : the vector of length len along v (v # 0).
ScaleTo(v, len) ==
    LET n == ISqrt(length_squared(v))
    IN  IF n = 0 THEN Vec(0, 0)
        ELSE Vec(IDiv(v.x * len, n), IDiv(v.y * len, n))

\* velocity * dt for a velocity in px/s and dt in ms
Travel(v, dtv) == Vec(IDiv(v.x * dtv, 1000), IDiv(v.y * dtv, 1000))

\* circle_intersects_circle, main.py line 57: distance <= radius_a + radius_b
circle_intersects_circle(center_a, radius_a, center_b, radius_b) ==
    length_squared(VSub(center_a, center_b)) <= (radius_a + radius_b) * (radius_a + radius_b)

(***************************************************************************)
(* Player (class Player, main.py lines 171-277)                            *)
(***************************************************************************)
\* Player.__init__
NewPlayer(position) ==
    [ position |-> position,
      radius |-> PLAYER_RADIUS,
      health |-> PLAYER_MAX_HEALTH,
      invuln_timer |-> 0,
      shoot_cooldown |-> 0,
      coins |-> 0,
      speed_multiplier |-> 1000,
      fire_rate_multiplier |-> 1000,
      bullet_size_level |-> 0,
      bullet_pierce_level |-> 0,
      magnet_radius |-> MAGNET_RADIUS_BASE,
      max_health_bonus |-> 0,
      armor |-> 0,
      bullet_damage_level |-> 0,
      coin_gain_level |-> 0,
      dodge_level |-> 0,
      regen_level |-> 0,
      lifesteal_level |-> 0,
      crit_level |-> 0,
      aoe_on_kill_level |-> 0,
      magnet_bonus_level |-> 0,
      bullet_speed_level |-> 0,
      regen_timer |-> 0,
      bullet_speed_multiplier |-> 1000,
      lifesteal_kills |-> 0 ]

\* Player.max_health
max_health(p) == PLAYER_MAX_HEALTH + p.max_health_bonus

\* Player.is_alive
is_alive(p) == p.health > 0

\* the regen interval without its floor of 4 s
RegenInterval_unfloored(level) == 12000 - 1600 * level

\* regen interval max(4.0, 12.0 - 1.6 * regen_level), in ms
RegenInterval(level) == Max(4000, 12000 - 1600 * level)

\* Player.update(dt, keys); move is the decoded key vector in {-1,0,1}^2
PlayerUpdate(p, dtv, move) ==
    LET speed == IDiv(PLAYER_SPEED * p.speed_multiplier, 1000)
        vel == IF length_squared(move) > 0
                 THEN ScaleTo(Vec(move.x * 1000, move.y * 1000), speed)
                 ELSE Vec(0, 0)
        moved == VAdd(p.position, Travel(vel, dtv))
        pos == Vec(clamp(moved.x, p.radius, WINDOW_WIDTH - p.radius),
                   clamp(moved.y, p.radius, WINDOW_HEIGHT - p.radius))
        inv == IF p.invuln_timer > 0 THEN p.invuln_timer - dtv ELSE p.invuln_timer
        cd == IF p.shoot_cooldown > 0 THEN p.shoot_cooldown - dtv ELSE p.shoot_cooldown
        regen == p.regen_level > 0 /\ p.health < max_health(p)
        rt == IF regen THEN p.regen_timer + dtv ELSE p.regen_timer
        heal == regen /\ rt >= RegenInterval(p.regen_level)
    IN  [p EXCEPT !.position = pos,
                  !.invuln_timer = inv,
                  !.shoot_cooldown = cd,
                  !.regen_timer = IF heal THEN 0 ELSE rt,
                  !.health = IF heal THEN Min(max_health(p), p.health + 1) ELSE p.health]

\* Bullet(...) as created by Player.try_shoot.  pierce0 and hits are history
\* fields: the pierce count at creation and the number of damaging hits.
NewBullet(p, aim_pos) ==
    LET speed_mult == IDiv(p.bullet_speed_multiplier * (100 + 8 * p.bullet_speed_level), 100)
        speed == IDiv(BULLET_SPEED * speed_mult, 1000)
    IN  [ position |-> p.position,
          velocity |-> ScaleTo(VSub(aim_pos, p.position), speed),
          radius |-> IDiv(BULLET_RADIUS * (100 + 35 * p.bullet_size_level), 100),
          pierce_remaining |-> p.bullet_pierce_level,
          lifetime |-> BULLET_LIFETIME_SEC,
          damage |-> 1 + p.bullet_damage_level,
          pierce0 |-> p.bullet_pierce_level,
          hits |-> 0 ]

\* try_shoot without the test of the direction
CanShoot_any_aim(p, aim_pos) == ~(p.shoot_cooldown > 0)

\* Player.try_shoot: whether a bullet is returned
CanShoot(p, aim_pos) ==
    /\ ~(p.shoot_cooldown > 0)
    /\ length_squared(VSub(aim_pos, p.position)) > 0

\* Player.try_shoot: the player after a successful shot
AfterShoot(p) ==
    [p EXCEPT !.shoot_cooldown =
        Max(20, IDiv(BULLET_COOLDOWN_SEC * 1000, p.fire_rate_multiplier))]

\* take_hit without the invulnerability test
take_hit_unguarded(p, roll) ==
    IF p.dodge_level > 0 /\ roll
    THEN [p EXCEPT !.invuln_timer = DODGE_INVULN_SEC]
    ELSE IF p.armor > 0
         THEN [p EXCEPT !.armor = p.armor - 1, !.invuln_timer = INVULN_ON_HIT_SEC]
    ELSE [p EXCEPT !.health = p.health - 1, !.invuln_timer = INVULN_ON_HIT_SEC]

\* take_hit spending health before armor
take_hit_health_first(p, roll) ==
    IF p.invuln_timer > 0 THEN p
    ELSE IF p.dodge_level > 0 /\ roll
         THEN [p EXCEPT !.invuln_timer = DODGE_INVULN_SEC]
    ELSE IF p.health > 1
         THEN [p EXCEPT !.health = p.health - 1, !.invuln_timer = INVULN_ON_HIT_SEC]
    ELSE IF p.armor > 0
         THEN [p EXCEPT !.armor = p.armor - 1, !.invuln_timer = INVULN_ON_HIT_SEC]
    ELSE [p EXCEPT !.health = p.health - 1, !.invuln_timer = INVULN_ON_HIT_SEC]

\* take_hit with a hit that goes through the armor
take_hit_through_armor(p, roll) ==
    IF p.invuln_timer > 0 THEN p
    ELSE IF p.dodge_level > 0 /\ roll
         THEN [p EXCEPT !.invuln_timer = DODGE_INVULN_SEC]
    ELSE IF p.armor > 0
         THEN [p EXCEPT !.armor = p.armor - 1, !.health = p.health - 1,
                        !.invuln_timer = INVULN_ON_HIT_SEC]
    ELSE [p EXCEPT !.health = p.health - 1, !.invuln_timer = INVULN_ON_HIT_SEC]

\* take_hit with the full invulnerability after a dodge
take_hit_long_dodge(p, roll) ==
    IF p.invuln_timer > 0 THEN p
    ELSE IF p.dodge_level > 0 /\ roll
         THEN [p EXCEPT !.invuln_timer = INVULN_ON_HIT_SEC]
    ELSE IF p.armor > 0
         THEN [p EXCEPT !.armor = p.armor - 1, !.invuln_timer = INVULN_ON_HIT_SEC]
    ELSE [p EXCEPT !.health = p.health - 1, !.invuln_timer = INVULN_ON_HIT_SEC]

\* Player.take_hit; roll is the outcome of
\* random.random() < min(0.5, 0.05 * dodge_level)
take_hit(p, roll) ==
    IF p.invuln_timer > 0 THEN p
    ELSE IF p.dodge_level > 0 /\ roll
         THEN [p EXCEPT !.invuln_timer = DODGE_INVULN_SEC]
    ELSE IF p.armor > 0
         THEN [p EXCEPT !.armor = p.armor - 1, !.invuln_timer = INVULN_ON_HIT_SEC]
    ELSE [p EXCEPT !.health = p.health - 1, !.invuln_timer = INVULN_ON_HIT_SEC]

\* on_kill healing without the max_health() cap
on_kill_uncapped(p) ==
    IF p.lifesteal_level > 0
    THEN LET k == p.lifesteal_kills + 1
         IN  IF k >= Max(1, 5 - p.lifesteal_level)
             THEN [p EXCEPT !.lifesteal_kills = 0, !.health = p.health + 1]
             ELSE [p EXCEPT !.lifesteal_kills = k]
    ELSE p

\* Player.on_kill (lifesteal)
on_kill(p) ==
    IF p.lifesteal_level > 0
    THEN LET k == p.lifesteal_kills + 1
         IN  IF k >= Max(1, 5 - p.lifesteal_level)
             THEN [p EXCEPT !.lifesteal_kills = 0,
                            !.health = Min(max_health(p), p.health + 1)]
             ELSE [p EXCEPT !.lifesteal_kills = k]
    ELSE p

(***************************************************************************)
(* Bullet, EnemyBullet, Explosion, Coin, Enemy                             *)
(***************************************************************************)
\* Bullet.update / EnemyBullet.update
BulletUpdate(b, dtv) ==
    [b EXCEPT !.position = VAdd(b.position, Travel(b.velocity, dtv)),
              !.lifetime = b.lifetime - dtv]

InBounds(pos, margin) ==
    /\ -margin <= pos.x /\ pos.x <= WINDOW_WIDTH + margin
    /\ -margin <= pos.y /\ pos.y <= WINDOW_HEIGHT + margin

\* Bullet.is_alive
BulletIsAlive(b) == ~(b.lifetime <= 0) /\ InBounds(b.position, BULLET_MARGIN)

\* EnemyBullet.is_alive
EnemyBulletIsAlive(eb) == ~(eb.lifetime <= 0) /\ InBounds(eb.position, ENEMY_BULLET_MARGIN)

\* Explosion.update
ExplosionUpdate(ex, dtv) ==
    LET lt == ex.lifetime - dtv
    IN  [ex EXCEPT !.lifetime = lt,
                   !.radius = IDiv(ex.max_radius * (EXPLOSION_LIFETIME - lt), EXPLOSION_LIFETIME)]

\* Explosion.is_alive
ExplosionIsAlive(ex) == ex.lifetime > 0

\* Coin.update clamping the position while keeping the velocity
CoinUpdate_keeps_velocity(c, dtv, player_pos, magnet_radius) ==
    LET v0 == Vec(IDiv(c.velocity.x * COIN_DRAG, 100), IDiv(c.velocity.y * COIN_DRAG, 100))
        to_player == VSub(player_pos, c.position)
        dist_sq == length_squared(to_player)
        v1 == IF dist_sq < magnet_radius * magnet_radius /\ dist_sq > 0
                THEN VAdd(v0, ScaleTo(to_player, IDiv(MAGNET_PULL * dtv, 1000)))
                ELSE v0
        p1 == VAdd(c.position, Travel(v1, dtv))
    IN  [c EXCEPT
           !.position = Vec(clamp(p1.x, c.radius, WINDOW_WIDTH - c.radius),
                            clamp(p1.y, c.radius, WINDOW_HEIGHT - c.radius)),
           !.velocity = v1]

\* Coin.update
CoinUpdate(c, dtv, player_pos, magnet_radius) ==
    LET v0 == Vec(IDiv(c.velocity.x * COIN_DRAG, 100), IDiv(c.velocity.y * COIN_DRAG, 100))
        to_player == VSub(player_pos, c.position)
        dist_sq == length_squared(to_player)
        v1 == IF dist_sq < magnet_radius * magnet_radius /\ dist_sq > 0
                THEN VAdd(v0, ScaleTo(to_player, IDiv(MAGNET_PULL * dtv, 1000)))
                ELSE v0
        p1 == VAdd(c.position, Travel(v1, dtv))
        lox == p1.x < c.radius
        hix == ~lox /\ p1.x > WINDOW_WIDTH - c.radius
        loy == p1.y < c.radius
        hiy == ~loy /\ p1.y > WINDOW_HEIGHT - c.radius
    IN  [c EXCEPT
           !.position = Vec(IF lox THEN c.radius ELSE IF hix THEN WINDOW_WIDTH - c.radius ELSE p1.x,
                            IF loy THEN c.radius ELSE IF hiy THEN WINDOW_HEIGHT - c.radius ELSE p1.y),
           !.velocity = Vec(IF lox \/ hix THEN 0 ELSE v1.x,
                            IF loy \/ hiy THEN 0 ELSE v1.y)]

\* Enemy(...) dataclass; kind distinguishes Enemy from ShooterEnemy
NewEnemy(position, speed, radius, hp, is_boss) ==
    [ position |-> position, speed |-> speed, radius |-> radius,
      max_health |-> hp, health |-> hp, is_boss |-> is_boss,
      kind |-> "plain", shoot_timer |-> 0, shoot_cooldown |-> 0 ]

\* ShooterEnemy.__init__
NewShooter(position, speed, radius, hp, cooldown) ==
    [ position |-> position, speed |-> speed, radius |-> radius,
      max_health |-> hp, health |-> hp, is_boss |-> FALSE,
      kind |-> "shooter", shoot_timer |-> cooldown, shoot_cooldown |-> cooldown ]

\* Enemy.update / ShooterEnemy.update
EnemyUpdate(e, dtv, target) ==
    LET to_target == VSub(target, e.position)
        pos == IF length_squared(to_target) > 0
                 THEN VAdd(e.position, ScaleTo(to_target, IDiv(e.speed * dtv, 1000)))
                 ELSE e.position
    IN  [e EXCEPT !.position = pos,
                  !.shoot_timer = IF e.kind = "shooter" THEN e.shoot_timer - dtv
                                  ELSE e.shoot_timer]

\* ShooterEnemy.ready_to_shoot
ready_to_shoot(e) == e.shoot_timer <= 0

\* ShooterEnemy.reset_shoot giving half of the cooldown
reset_shoot_half(e) == [e EXCEPT !.shoot_timer = e.shoot_cooldown \div 2]

\* ShooterEnemy.reset_shoot
reset_shoot(e) == [e EXCEPT !.shoot_timer = e.shoot_cooldown]

\* EnemyBullet(position, velocity)
NewEnemyBullet(position, velocity) ==
    [ position |-> position, velocity |-> velocity,
      radius |-> ENEMY_BULLET_RADIUS, lifetime |-> ENEMY_BULLET_LIFETIME ]

\* Coin(position, value, velocity)
NewCoin(position, value, velocity) ==
    [ position |-> position, value |-> value, velocity |-> velocity, radius |-> COIN_RADIUS ]

(***************************************************************************)
(* EnemySpawner (main.py lines 328-404)                                    *)
(***************************************************************************)
\* EnemySpawner.__init__
NewSpawner ==
    [ timer |-> ENEMY_SPAWN_EVERY_SEC,
      current_interval |-> ENEMY_SPAWN_EVERY_SEC,
      accel_timer |-> 0,
      level |-> 1,
      kills_this_level |-> 0,
      boss_active |-> FALSE,
      level_transition_timer |-> 0,
      boss_banner_timer |-> 0 ]

\* the tightened interval without its floor
Tighten_unfloored(interval, factor) == IDiv(interval * factor, 100)

\* current_interval * factor, floored at 0.25 s
Tighten(interval, factor) == Max(MIN_SPAWN_INTERVAL, IDiv(interval * factor, 100))

\* EnemySpawner.update without the early return of the level transition
SpawnerUpdate_through_transition(sp, dtv) ==
    LET at == sp.accel_timer + dtv
        tr == IF sp.level_transition_timer > 0
              THEN sp.level_transition_timer - dtv ELSE sp.level_transition_timer
    IN  IF at >= ENEMY_SPAWN_ACCEL_EVERY_SEC
        THEN [sp EXCEPT !.level_transition_timer = tr,
                        !.timer = sp.timer - dtv,
                        !.accel_timer = 0,
                        !.current_interval = Tighten(sp.current_interval, ENEMY_SPAWN_ACCEL_FACTOR)]
        ELSE [sp EXCEPT !.level_transition_timer = tr,
                        !.timer = sp.timer - dtv, !.accel_timer = at]

\* EnemySpawner.update
SpawnerUpdate(sp, dtv) ==
    IF sp.level_transition_timer > 0
    THEN [sp EXCEPT !.level_transition_timer = sp.level_transition_timer - dtv]
    ELSE LET at == sp.accel_timer + dtv
         IN  IF at >= ENEMY_SPAWN_ACCEL_EVERY_SEC
             THEN [sp EXCEPT !.timer = sp.timer - dtv,
                             !.accel_timer = 0,
                             !.current_interval = Tighten(sp.current_interval, ENEMY_SPAWN_ACCEL_FACTOR)]
             ELSE [sp EXCEPT !.timer = sp.timer - dtv, !.accel_timer = at]

\* EnemySpawner.should_spawn
should_spawn(sp) == sp.timer <= 0 /\ sp.level_transition_timer <= 0

\* kills needed before the boss of a level
KillsNeeded(level) == LEVEL_KILLS_TO_BOSS_BASE + (level - 1) * LEVEL_KILLS_TO_BOSS_INC

\* should_spawn_boss without the boss_active test
should_spawn_boss_any(sp) == sp.kills_this_level >= KillsNeeded(sp.level)

\* EnemySpawner.should_spawn_boss
should_spawn_boss(sp) ==
    IF sp.boss_active THEN FALSE
    ELSE sp.kills_this_level >= KillsNeeded(sp.level)

\* on_boss_killed without the reset of the kill count
on_boss_killed_keeps_kills(sp) ==
    LET ci == Tighten(sp.current_interval, BOSS_KILL_FACTOR)
    IN  [sp EXCEPT !.level = sp.level + 1,
                   !.boss_active = FALSE,
                   !.current_interval = ci,
                   !.timer = ci,
                   !.level_transition_timer = LEVEL_TRANSITION_SEC]

\* EnemySpawner.on_boss_killed
on_boss_killed(sp) ==
    LET ci == Tighten(sp.current_interval, BOSS_KILL_FACTOR)
    IN  [sp EXCEPT !.level = sp.level + 1,
                   !.kills_this_level = 0,
                   !.boss_active = FALSE,
                   !.current_interval = ci,
                   !.timer = ci,
                   !.level_transition_timer = LEVEL_TRANSITION_SEC]

\* EnemySpawner.spawn_boss: the spawner after the call
AfterSpawnBoss(sp) ==
    [sp EXCEPT !.boss_active = TRUE, !.boss_banner_timer = BOSS_BANNER_SEC]

\* EnemySpawner.spawn_boss: the position for each side
BossPosition(side) ==
    CASE side = "top"    -> Vec(WINDOW_WIDTH \div 2, -(ENEMY_RADIUS * 4))
      [] side = "bottom" -> Vec(WINDOW_WIDTH \div 2, WINDOW_HEIGHT + ENEMY_RADIUS * 4)
      [] side = "left"   -> Vec(-(ENEMY_RADIUS * 4), WINDOW_HEIGHT \div 2)
      [] OTHER           -> Vec(WINDOW_WIDTH + ENEMY_RADIUS * 4, WINDOW_HEIGHT \div 2)

\* spawn_boss with the health of the first level at every level
NewBoss_flat_health(sp, side, speed) ==
    NewEnemy(BossPosition(side), speed, BOSS_RADIUS, BOSS_BASE_HP, TRUE)

\* EnemySpawner.spawn_boss: the boss returned
NewBoss(sp, side, speed) ==
    NewEnemy(BossPosition(side), speed, BOSS_RADIUS,
             BOSS_BASE_HP + BOSS_HP_PER_LEVEL * (sp.level - 1), TRUE)

\* EnemySpawner.spawn_enemy: the position for a side and a draw along it
SpawnPosition(side, along) ==
    CASE side = "top"    -> Vec(along, -(ENEMY_RADIUS * 2))
      [] side = "bottom" -> Vec(along, WINDOW_HEIGHT + ENEMY_RADIUS * 2)
      [] side = "left"   -> Vec(-(ENEMY_RADIUS * 2), along)
      [] OTHER           -> Vec(WINDOW_WIDTH + ENEMY_RADIUS * 2, along)

\* spawn_enemy without the level test of the shooter draw
spawn_enemy_any_level(sp, side, along, base, shooter) ==
    LET speed == IDiv(base * (100 + 6 * (sp.level - 1)), 100)
    IN  IF shooter
        THEN NewShooter(SpawnPosition(side, along), IDiv(speed * 95, 100), ENEMY_RADIUS + 2,
                        3 + (sp.level \div 2), Max(900, 1600 - 60 * sp.level))
        ELSE NewEnemy(SpawnPosition(side, along), speed, ENEMY_RADIUS,
                      1 + ((sp.level - 1) \div 3), FALSE)

\* EnemySpawner.spawn_enemy; base is the uniform speed draw, shooter the
\* outcome of random.random() < min(0.20 + 0.04 * (level - 2), 0.55)
spawn_enemy(sp, side, along, base, shooter) ==
    LET speed == IDiv(base * (100 + 6 * (sp.level - 1)), 100)
    IN  IF sp.level >= 2 /\ shooter
        THEN NewShooter(SpawnPosition(side, along), IDiv(speed * 95, 100), ENEMY_RADIUS + 2,
                        3 + (sp.level \div 2), Max(900, 1600 - 60 * sp.level))
        ELSE NewEnemy(SpawnPosition(side, along), speed, ENEMY_RADIUS,
                      1 + ((sp.level - 1) \div 3), FALSE)

(***************************************************************************)
(* Bounds of the exploration and the input draws                           *)
(***************************************************************************)
\* frames explored from an initial state
MaxTicks == 2

\* dt_ms = clock.tick(FPS): a regular 60 Hz frame and a slow frame
DtSet == {16, 400}

\* decoded movement keys: none, and D (right)
MoveSet == {Vec(0, 0), Vec(1, 0)}

\* the aim points of the mouse when its left button is pressed
AimSet == {Vec(WINDOW_WIDTH, WINDOW_HEIGHT \div 2)}

\* random.choice of the spawn side, and the uniform draws of spawn_enemy
SideSet == {"top", "right"}
AlongSet == {WINDOW_HEIGHT \div 2}
SpeedSet == {ENEMY_SPEED_MIN, ENEMY_SPEED_MAX}
BossSpeedSet == {100, 140}

\* uniform(-40, 40) velocity draw of a normal coin drop
DropVelSet == {Vec(40, -40)}

\* uniform(-180, 180) velocity draws of the 14 boss coins, one per coin
BossScatter(i) ==
    CASE i % 4 = 0 -> Vec(180, 0)
      [] i % 4 = 1 -> Vec(0, 180)
      [] i % 4 = 2 -> Vec(-180, 0)
      [] OTHER     -> Vec(0, -180)

(***************************************************************************)
(* State of run()                                                          *)
(***************************************************************************)
VARIABLES
    pc,                 \* position in the frame loop of run()
    dt,                 \* dt_ms of the current frame
    ticks,              \* frames started
    player, bullets, enemies, coins, explosions, enemy_bullets,
    spawner, score,
    shop_open, shop_page, paused, item_shop_open, item_click_block,
    console_open, admin_panel_open, admin_authenticated,
    console_text, admin_input,   \* typed text, a sequence of characters
    running,            \* the flag of the inner `while running` loop
    save_file,          \* save.json: <<>> when absent, else <<snapshot>>
    nevents,            \* input events handled
    shop,               \* speed_levels .. hp_levels, the tiered-shop counters
    ei, alive_enemies,  \* loop index and list of the bullet-vs-enemy pass
    hist                \* history of the current frame and of take_hit calls

entityVars == <<player, bullets, enemies, coins, explosions, enemy_bullets, spawner, score>>
matchUi == <<shop_open, shop_page, paused, item_shop_open, item_click_block>>
panelVars == <<console_open, admin_panel_open, admin_authenticated, console_text, admin_input>>
uiVars == <<matchUi, panelVars, running, save_file, nevents>>
loopVars == <<ei, alive_enemies>>
vars == <<pc, dt, ticks, entityVars, uiVars, shop, loopVars, hist>>

\* the condition guarding every simulation block of the frame
\* (main.py lines 1009, 1027, 1052, 1113, 1121, 1131)
Active ==
    /\ ~paused /\ ~shop_open /\ ~item_shop_open
    /\ ~console_open /\ ~admin_panel_open
    /\ is_alive(player)

NewShop == [ speed_levels |-> 0, firerate_levels |-> 0, pierce_levels |-> 0,
             size_levels |-> 0, magnet_levels |-> 0, hp_levels |-> 0 ]

\* history: whether the current frame killed a boss; the last input request
\* <<kind, what>>; the take_hit calls made and their starting point; the
\* blocks of the frame loop executed so far in the current frame, in order
NewHist == [ boss_killed |-> FALSE, request |-> <<>>, calls |-> 0, landed |-> 0, start |-> <<>>,
             log |-> <<>> ]

\* the history after the block named op has been executed
Logged(h, op) == [h EXCEPT !.log = Append(h.log, op)]

\* position of a new Player (line 682)
Center == Vec(WINDOW_WIDTH \div 2, WINDOW_HEIGHT \div 2)

\* data.get(key, default) of the save file
Get(data, key, default) == IF key \in DOMAIN data THEN data[key] ELSE default

\* The content of save.json is a record of the numbers it holds; a field
\* "malformed", if present, is the set of keys whose value int()/float()
\* rejects (all keys for a file json.load rejects or that holds no object).
\* The keys in the order lines 701-719 read them:
LoadOrder ==
    << "coins", "speed_multiplier", "fire_rate_multiplier", "bullet_size_level",
       "bullet_pierce_level", "magnet_radius", "max_health_bonus", "armor",
       "bullet_damage_level", "coin_gain_level",
       "speed_levels", "firerate_levels", "pierce_levels", "size_levels",
       "magnet_levels", "hp_levels" >>

\* the conversion of the value of key raises
Raises(data, key) == "malformed" \in DOMAIN data /\ key \in data.malformed

\* the index in LoadOrder of the statement that raises, Len(LoadOrder) + 1 if none
FirstRaise(data) ==
    LET bad == {i \in 1..Len(LoadOrder) : Raises(data, LoadOrder[i])}
    IN  IF bad = {} THEN Len(LoadOrder) + 1 ELSE CHOOSE i \in bad : \A k \in bad : i <= k

\* the value the i-th statement of the try block assigns, the default it leaves
\* when an earlier statement raised
Read(data, i, default) ==
    IF i < FirstRaise(data) THEN Get(data, LoadOrder[i], default) ELSE default

\* lines 696-712: the player of a new match, loaded from the save file; the
\* statements before the one that raises have been executed
LoadedPlayer(sf) ==
    IF Len(sf) = 0 THEN NewPlayer(Center)
    ELSE LET data == sf[1]
             p == [NewPlayer(Center) EXCEPT
                     !.coins = Read(data, 1, 0),
                     !.speed_multiplier = Read(data, 2, 1000),
                     !.fire_rate_multiplier = Read(data, 3, 1000),
                     !.bullet_size_level = Read(data, 4, 0),
                     !.bullet_pierce_level = Read(data, 5, 0),
                     !.magnet_radius = Read(data, 6, MAGNET_RADIUS_BASE),
                     !.max_health_bonus = Read(data, 7, 0),
                     !.armor = Read(data, 8, 0),
                     !.bullet_damage_level = Read(data, 9, 0),
                     !.coin_gain_level = Read(data, 10, 0)]
         IN  IF FirstRaise(data) > 10 THEN [p EXCEPT !.health = max_health(p)] ELSE p

\* lines 713-731: the tiered-shop counters of a new match; the except branch
\* of lines 720-721 sets all six to 0
LoadedShop(sf) ==
    IF Len(sf) = 0 THEN NewShop
    ELSE LET data == sf[1]
         IN  IF FirstRaise(data) <= Len(LoadOrder) THEN NewShop
             ELSE [ speed_levels |-> Get(data, "speed_levels", 0),
                    firerate_levels |-> Get(data, "firerate_levels", 0),
                    pierce_levels |-> Get(data, "pierce_levels", 0),
                    size_levels |-> Get(data, "size_levels", 0),
                    magnet_levels |-> Get(data, "magnet_levels", 0),
                    hp_levels |-> Get(data, "hp_levels", 0) ]

\* save_state (lines 745-766): the file written
Snapshot(p, sh) ==
    << [ coins |-> p.coins,
         speed_multiplier |-> p.speed_multiplier,
         fire_rate_multiplier |-> p.fire_rate_multiplier,
         bullet_size_level |-> p.bullet_size_level,
         bullet_pierce_level |-> p.bullet_pierce_level,
         magnet_radius |-> p.magnet_radius,
         max_health_bonus |-> p.max_health_bonus,
         armor |-> p.armor,
         bullet_damage_level |-> p.bullet_damage_level,
         coin_gain_level |-> p.coin_gain_level,
         speed_levels |-> sh.speed_levels,
         firerate_levels |-> sh.firerate_levels,
         pierce_levels |-> sh.pierce_levels,
         size_levels |-> sh.size_levels,
         magnet_levels |-> sh.magnet_levels,
         hp_levels |-> sh.hp_levels ] >>

\* a state between two frames of a match: the match's player, shop counters,
\* spawner, score and populations, no panel open, save file sf
MatchAt(p, sh, sp, sc, es, bs, cs, ebs, sf) ==
    /\ pc = "frame"
    /\ dt = 0
    /\ ticks = 0
    /\ player = p
    /\ bullets = bs
    /\ enemies = es
    /\ coins = cs
    /\ explosions = <<>>
    /\ enemy_bullets = ebs
    /\ spawner = sp
    /\ score = sc
    /\ shop_open = FALSE
    /\ shop_page = 0
    /\ paused = FALSE
    /\ item_shop_open = FALSE
    /\ item_click_block = FALSE
    /\ console_open = FALSE
    /\ admin_panel_open = FALSE
    /\ admin_authenticated = FALSE
    /\ console_text = <<>>
    /\ admin_input = <<>>
    /\ running = TRUE
    /\ save_file = sf
    /\ nevents = 0
    /\ shop = sh
    /\ ei = 1
    /\ alive_enemies = <<>>

\* the state at the start of run() (lines 672-731) with save file sf
FreshRun(sf) ==
    /\ MatchAt(LoadedPlayer(sf), LoadedShop(sf), NewSpawner, 0, <<>>, <<>>, <<>>, <<>>, sf)
    /\ hist = NewHist

\* a new match of the outer `while True` loop (lines 682-731)
NewMatch ==
    /\ player' = LoadedPlayer(save_file')
    /\ bullets' = <<>>
    /\ enemies' = <<>>
    /\ coins' = <<>>
    /\ explosions' = <<>>
    /\ enemy_bullets' = <<>>
    /\ spawner' = NewSpawner
    /\ score' = 0
    /\ shop_open' = FALSE
    /\ shop_page' = 0
    /\ paused' = FALSE
    /\ item_shop_open' = FALSE
    /\ item_click_block' = FALSE
    /\ running' = TRUE
    /\ shop' = LoadedShop(save_file')

(***************************************************************************)
(* The frame loop of run(), main.py lines 769-1305                         *)
(***************************************************************************)
\* line 770: dt_ms = clock.tick(FPS)
StartFrame ==
    /\ pc = "frame"
    /\ ticks < MaxTicks
    /\ \E d \in DtSet : dt' = d
    /\ ticks' = ticks + 1
    /\ pc' = "events"
    /\ hist' = [hist EXCEPT !.boss_killed = FALSE, !.log = <<>>]
    /\ UNCHANGED <<entityVars, uiVars, shop, loopVars>>

\* lines 1008-1014: player.update and try_shoot; mouse is <<>> (button not
\* pressed) or <<aim point>>
PlayerPhase ==
    /\ pc = "events"
    /\ pc' = "bullets"
    /\ \E move \in MoveSet, mouse \in {<<>>} \cup {<<a>> : a \in AimSet} :
         IF Active
         THEN LET p1 == PlayerUpdate(player, dt, move)
                  fire == Len(mouse) > 0 /\ CanShoot(p1, mouse[1])
              IN  /\ player' = IF fire THEN AfterShoot(p1) ELSE p1
                  /\ bullets' = IF fire THEN Append(bullets, NewBullet(p1, mouse[1])) ELSE bullets
         ELSE UNCHANGED <<player, bullets>>
    /\ hist' = IF Active THEN Logged(hist, "player.update") ELSE hist
    /\ UNCHANGED <<dt, ticks, enemies, coins, explosions, enemy_bullets, spawner, score,
                   uiVars, shop, loopVars>>

\* lines 1016-1019
UpdatedBullets(bs, dtv) ==
    LET upd == [i \in 1..Len(bs) |-> BulletUpdate(bs[i], dtv)]
    IN  SelectSeq(upd, BulletIsAlive)

BulletsPhase ==
    /\ pc = "bullets"
    /\ pc' = "enemy_bullets"
    /\ bullets' = UpdatedBullets(bullets, dt)
    /\ hist' = Logged(hist, "bullets.update")
    /\ UNCHANGED <<dt, ticks, player, enemies, coins, explosions, enemy_bullets, spawner,
                   score, uiVars, shop, loopVars>>

\* lines 1021-1024 without the is_alive filter
UpdatedEnemyBullets_unfiltered(ebs, dtv) ==
    [i \in 1..Len(ebs) |-> BulletUpdate(ebs[i], dtv)]

\* lines 1021-1024
UpdatedEnemyBullets(ebs, dtv) ==
    LET upd == [i \in 1..Len(ebs) |-> BulletUpdate(ebs[i], dtv)]
    IN  SelectSeq(upd, EnemyBulletIsAlive)

EnemyBulletsPhase ==
    /\ pc = "enemy_bullets"
    /\ pc' = "spawner"
    /\ enemy_bullets' = UpdatedEnemyBullets(enemy_bullets, dt)
    /\ hist' = Logged(hist, "enemy_bullets.update")
    /\ UNCHANGED <<dt, ticks, player, bullets, enemies, coins, explosions, spawner,
                   score, uiVars, shop, loopVars>>

\* lines 1033-1040: one enemy of the loop: e.update, then the Shooter's shot
Fires(e1, target) ==
    /\ e1.kind = "shooter"
    /\ ready_to_shoot(e1)
    /\ length_squared(VSub(target, e1.position)) > 0

MovedEnemy(e, dtv, target) ==
    LET e1 == EnemyUpdate(e, dtv, target)
    IN  IF Fires(e1, target) THEN reset_shoot(e1) ELSE e1

RECURSIVE ShotsFired(_, _, _, _, _)
ShotsFired(es, dtv, target, level, i) ==
    IF i > Len(es) THEN <<>>
    ELSE LET e1 == EnemyUpdate(es[i], dtv, target)
             shot == IF Fires(e1, target)
                       THEN <<NewEnemyBullet(e1.position,
                                 ScaleTo(VSub(target, e1.position), 220 + 6 * level))>>
                       ELSE <<>>
         IN  shot \o ShotsFired(es, dtv, target, level, i + 1)

\* the spawner block run after the enemy updates instead of before them
SpawnerPhase_after_enemies ==
    /\ pc = "spawner"
    /\ pc' = "coins"
    /\ IF Active
       THEN LET sp1 == SpawnerUpdate(spawner, dt)
                moved == [i \in 1..Len(enemies) |-> MovedEnemy(enemies[i], dt, player.position)]
            IN  /\ enemy_bullets' = enemy_bullets \o
                                    ShotsFired(enemies, dt, player.position, spawner.level, 1)
                /\ IF sp1.timer <= 0
                   THEN \E side \in SideSet, along \in AlongSet, base \in SpeedSet,
                           shooter \in BOOLEAN :
                          /\ enemies' = Append(moved, spawn_enemy(sp1, side, along, base, shooter))
                          /\ spawner' = [sp1 EXCEPT !.timer = sp1.current_interval]
                   ELSE /\ spawner' = sp1
                        /\ enemies' = moved
                /\ hist' = Logged(Logged(hist, "enemies.update"), "spawner.update")
       ELSE UNCHANGED <<spawner, enemies, enemy_bullets, hist>>
    /\ UNCHANGED <<dt, ticks, player, bullets, coins, explosions,
                   score, uiVars, shop, loopVars>>

\* the spawner block without the test of line 1027
SpawnerPhase_unguarded ==
    /\ pc = "spawner"
    /\ pc' = "enemies"
    /\ LET sp1 == SpawnerUpdate(spawner, dt)
       IN  IF sp1.timer <= 0
           THEN \E side \in SideSet, along \in AlongSet, base \in SpeedSet,
                   shooter \in BOOLEAN :
                  /\ enemies' = Append(enemies, spawn_enemy(sp1, side, along, base, shooter))
                  /\ spawner' = [sp1 EXCEPT !.timer = sp1.current_interval]
           ELSE /\ spawner' = sp1
                /\ UNCHANGED enemies
    /\ hist' = Logged(hist, "spawner.update")
    /\ UNCHANGED <<dt, ticks, player, bullets, coins, explosions, enemy_bullets,
                   score, uiVars, shop, loopVars>>

\* lines 1027-1031: spawner.update and the regular spawn
SpawnerPhase ==
    /\ pc = "spawner"
    /\ pc' = "enemies"
    /\ IF Active
       THEN LET sp1 == SpawnerUpdate(spawner, dt)
            IN  IF sp1.timer <= 0
                THEN \E side \in SideSet, along \in AlongSet, base \in SpeedSet,
                        shooter \in BOOLEAN :
                       /\ enemies' = Append(enemies, spawn_enemy(sp1, side, along, base, shooter))
                       /\ spawner' = [sp1 EXCEPT !.timer = sp1.current_interval]
                ELSE /\ spawner' = sp1
                     /\ UNCHANGED enemies
       ELSE UNCHANGED <<spawner, enemies>>
    /\ hist' = IF Active THEN Logged(hist, "spawner.update") ELSE hist
    /\ UNCHANGED <<dt, ticks, player, bullets, coins, explosions, enemy_bullets,
                   score, uiVars, shop, loopVars>>

\* lines 1033-1040: the loop over the enemies
EnemiesPhase ==
    /\ pc = "enemies"
    /\ pc' = "coins"
    /\ IF Active
       THEN /\ enemies' = [i \in 1..Len(enemies) |-> MovedEnemy(enemies[i], dt, player.position)]
            /\ enemy_bullets' = enemy_bullets \o
                                ShotsFired(enemies, dt, player.position, spawner.level, 1)
       ELSE UNCHANGED <<enemies, enemy_bullets>>
    /\ hist' = IF Active THEN Logged(hist, "enemies.update") ELSE hist
    /\ UNCHANGED <<dt, ticks, player, bullets, coins, explosions, spawner,
                   score, uiVars, shop, loopVars>>

\* lines 1042-1044
CoinsPhase ==
    /\ pc = "coins"
    /\ pc' = "explosions"
    /\ coins' = [i \in 1..Len(coins) |->
                   CoinUpdate(coins[i], dt, player.position, player.magnet_radius)]
    /\ hist' = Logged(hist, "coins.update")
    /\ UNCHANGED <<dt, ticks, player, bullets, enemies, explosions, enemy_bullets, spawner,
                   score, uiVars, shop, loopVars>>

\* lines 1046-1049, and the guard of line 1052
ExplosionsPhase ==
    /\ pc = "explosions"
    /\ explosions' = SelectSeq([i \in 1..Len(explosions) |-> ExplosionUpdate(explosions[i], dt)],
                               ExplosionIsAlive)
    /\ pc' = IF Active THEN "bullets_vs_enemies" ELSE "enemies_vs_player"
    /\ ei' = 1
    /\ alive_enemies' = <<>>
    /\ hist' = IF Active
                THEN Logged(Logged(hist, "explosions.update"), "bullets_vs_enemies")
                ELSE Logged(hist, "explosions.update")
    /\ UNCHANGED <<dt, ticks, player, bullets, enemies, coins, enemy_bullets, spawner,
                   score, uiVars, shop>>

(***************************************************************************)
(* Collisions: bullets vs enemies, main.py lines 1052-1110                 *)
(***************************************************************************)
\* lines 1057-1058: the first bullet of the list that overlaps e, 0 if none
FirstHit(e, bs) ==
    LET over == {j \in 1..Len(bs) :
                   circle_intersects_circle(e.position, e.radius, bs[j].position, bs[j].radius)}
    IN  IF over = {} THEN 0 ELSE CHOOSE j \in over : \A k \in over : j <= k

\* a hit that takes the bullet's damage field off the enemy's health
Damaged_by_field(e, b) == [e EXCEPT !.health = e.health - b.damage]

\* line 1061: e.health -= 1 for the enemy e hit by bullet b
Damaged(e, b) == [e EXCEPT !.health = e.health - 1]

\* a hit that leaves a bullet without pierce in flight
SpendBullet_kept(b) ==
    IF b.pierce_remaining > 0
    THEN [b EXCEPT !.pierce_remaining = b.pierce_remaining - 1, !.hits = b.hits + 1]
    ELSE [b EXCEPT !.hits = b.hits + 1]

\* a hit that takes a pierce off every bullet, with or without pierce left
SpendBullet_always_decrements(b) ==
    [b EXCEPT !.pierce_remaining = b.pierce_remaining - 1,
              !.lifetime = IF b.pierce_remaining > 0 THEN b.lifetime ELSE 0,
              !.hits = b.hits + 1]

\* lines 1092-1095 and 1098-1101: the bullet after a hit
SpendBullet(b) ==
    IF b.pierce_remaining > 0
    THEN [b EXCEPT !.pierce_remaining = b.pierce_remaining - 1, !.hits = b.hits + 1]
    ELSE [b EXCEPT !.lifetime = 0, !.hits = b.hits + 1]

\* lines 1068-1076: the explosion of a kill
KillExplosion(p, e) ==
    IF p.aoe_on_kill_level > 0
    THEN << [ position |-> e.position, radius |-> 0,
              max_radius |-> 40 + 10 * p.aoe_on_kill_level,
              damage |-> 1 + p.aoe_on_kill_level,
              lifetime |-> EXPLOSION_LIFETIME ] >>
    ELSE <<>>

\* the coins of a kill with a boss bundle one coin short
KillCoins_short(e, drop, vel) ==
    IF e.is_boss
    THEN [i \in 1..(BOSS_COINS - 1) |-> NewCoin(e.position, BOSS_COIN_VALUE, BossScatter(i))]
    ELSE IF drop > 0 THEN <<NewCoin(e.position, drop, vel)>> ELSE <<>>

\* lines 1078-1089: the coins of a kill; drop is 0 (no coin) or the coin value
KillCoins(e, drop, vel) ==
    IF e.is_boss
    THEN [i \in 1..BOSS_COINS |-> NewCoin(e.position, BOSS_COIN_VALUE, BossScatter(i))]
    ELSE IF drop > 0 THEN <<NewCoin(e.position, drop, vel)>> ELSE <<>>

\* lines 1082 and 1090: the spawner after a kill
KillSpawner(sp, e) ==
    LET sp1 == IF e.is_boss THEN on_boss_killed(sp) ELSE sp
    IN  [sp1 EXCEPT !.kills_this_level = sp1.kills_this_level + 1]

\* lines 1066 and 1084-1085: the player after a kill
KillPlayer(p, e, armor_drop) ==
    LET p1 == on_kill(p)
    IN  IF e.is_boss /\ armor_drop THEN [p1 EXCEPT !.armor = p1.armor + 1] ELSE p1

\* lines 1054-1104: one iteration of `for e in enemies`
BulletVsEnemy ==
    /\ pc = "bullets_vs_enemies"
    /\ ei <= Len(enemies)
    /\ ei' = ei + 1
    /\ LET e == enemies[ei]
           j == FirstHit(e, bullets)
           e1 == Damaged(e, bullets[j])
       IN  IF j = 0
           THEN /\ alive_enemies' = Append(alive_enemies, e)
                /\ UNCHANGED <<player, bullets, enemies, coins, explosions, spawner, score, hist>>
           ELSE IF e1.health <= 0
           THEN \E drop \in {0, 1, 2}, vel \in DropVelSet, armor_drop \in BOOLEAN :
                  /\ score' = score + 1
                  /\ player' = KillPlayer(player, e, armor_drop)
                  /\ explosions' = explosions \o KillExplosion(player, e)
                  /\ coins' = coins \o KillCoins(e, drop, vel)
                  /\ spawner' = KillSpawner(spawner, e)
                  /\ bullets' = [bullets EXCEPT ![j] = SpendBullet(bullets[j])]
                  /\ enemies' = [enemies EXCEPT ![ei] = e1]
                  /\ alive_enemies' = alive_enemies
                  /\ hist' = [hist EXCEPT !.boss_killed = hist.boss_killed \/ e.is_boss]
           ELSE /\ bullets' = [bullets EXCEPT ![j] = SpendBullet(bullets[j])]
                /\ enemies' = [enemies EXCEPT ![ei] = e1]
                /\ alive_enemies' = Append(alive_enemies, e1)
                /\ UNCHANGED <<player, coins, explosions, spawner, score, hist>>
    /\ pc' = pc
    /\ UNCHANGED <<dt, ticks, enemy_bullets, uiVars, shop>>

\* lines 1105-1106: the purge after the pass
PurgeAfterPass ==
    /\ pc = "bullets_vs_enemies"
    /\ ei > Len(enemies)
    /\ enemies' = alive_enemies
    /\ bullets' = SelectSeq(bullets, BulletIsAlive)
    /\ alive_enemies' = <<>>
    /\ ei' = 1
    /\ pc' = "boss_gate"
    /\ hist' = Logged(hist, "cleanup")
    /\ UNCHANGED <<dt, ticks, player, coins, explosions, enemy_bullets, spawner, score,
                   uiVars, shop>>

\* lines 1108-1110: spawn boss when ready
BossGate ==
    /\ pc = "boss_gate"
    /\ pc' = "enemies_vs_player"
    /\ IF should_spawn_boss(spawner)
       THEN \E side \in SideSet, speed \in BossSpeedSet :
              /\ enemies' = Append(enemies, NewBoss(spawner, side, speed))
              /\ spawner' = AfterSpawnBoss(spawner)
       ELSE UNCHANGED <<enemies, spawner>>
    /\ hist' = Logged(hist, "boss_gate")
    /\ UNCHANGED <<dt, ticks, player, bullets, coins, explosions, enemy_bullets, score,
                   uiVars, shop, loopVars>>

(***************************************************************************)
(* Collisions with the player and coin pickup, main.py lines 1112-1143     *)
(***************************************************************************)
Touches(p, margin, c) ==
    circle_intersects_circle(p.position, p.radius + margin, c.position, c.radius)

\* the take_hit calls of a collision loop, made without regard to the timer
RECURSIVE HitsBy_each(_, _, _, _)
HitsBy_each(p, es, rolls, i) ==
    IF i > Len(es) THEN p
    ELSE HitsBy_each(IF Touches(p, 0, es[i])
                       THEN take_hit([p EXCEPT !.invuln_timer = 0], rolls[i]) ELSE p,
                     es, rolls, i + 1)

\* lines 1114-1116: the take_hit calls of the enemy loop, in list order;
\* rolls[i] is the dodge draw of the i-th call
RECURSIVE HitsBy(_, _, _, _)
HitsBy(p, es, rolls, i) ==
    IF i > Len(es) THEN p
    ELSE HitsBy(IF Touches(p, 0, es[i]) THEN take_hit(p, rolls[i]) ELSE p, es, rolls, i + 1)

\* lines 1117-1119: the enemy pushed back
PushedBack(e, p) ==
    LET to_enemy == VSub(e.position, p.position)
    IN  IF Touches(p, 0, e) /\ length_squared(to_enemy) > 0
        THEN [e EXCEPT !.position = VAdd(e.position, ScaleTo(to_enemy, PUSH_BACK))]
        ELSE e

EnemiesVsPlayer ==
    /\ pc = "enemies_vs_player"
    /\ pc' = "enemy_bullets_vs_player"
    /\ IF Active
       THEN \E rolls \in [1..Len(enemies) -> BOOLEAN] :
              /\ player' = HitsBy(player, enemies, rolls, 1)
              /\ enemies' = [i \in 1..Len(enemies) |-> PushedBack(enemies[i], player)]
       ELSE UNCHANGED <<player, enemies>>
    /\ hist' = IF Active THEN Logged(hist, "enemies_vs_player") ELSE hist
    /\ UNCHANGED <<dt, ticks, bullets, coins, explosions, enemy_bullets, spawner, score,
                   uiVars, shop, loopVars>>

\* the enemy-bullet pass keeping the bullets an invulnerable player blocks
EnemyBulletsVsPlayer_keeps_blocked ==
    /\ pc = "enemy_bullets_vs_player"
    /\ pc' = "pickup"
    /\ IF Active
       THEN \E rolls \in [1..Len(enemy_bullets) -> BOOLEAN] :
              /\ player' = HitsBy(player, enemy_bullets, rolls, 1)
              /\ enemy_bullets' = SelectSeq(enemy_bullets,
                                            LAMBDA eb : ~Touches(player, 0, eb)
                                                        \/ player.invuln_timer > 0)
       ELSE UNCHANGED <<player, enemy_bullets>>
    /\ hist' = IF Active THEN Logged(hist, "enemy_bullets_vs_player") ELSE hist
    /\ UNCHANGED <<dt, ticks, bullets, enemies, coins, explosions, spawner, score,
                   uiVars, shop, loopVars>>

\* lines 1121-1128
EnemyBulletsVsPlayer ==
    /\ pc = "enemy_bullets_vs_player"
    /\ pc' = "pickup"
    /\ IF Active
       THEN \E rolls \in [1..Len(enemy_bullets) -> BOOLEAN] :
              /\ player' = HitsBy(player, enemy_bullets, rolls, 1)
              /\ enemy_bullets' = SelectSeq(enemy_bullets, LAMBDA eb : ~Touches(player, 0, eb))
       ELSE UNCHANGED <<player, enemy_bullets>>
    /\ hist' = IF Active THEN Logged(hist, "enemy_bullets_vs_player") ELSE hist
    /\ UNCHANGED <<dt, ticks, bullets, enemies, coins, explosions, spawner, score,
                   uiVars, shop, loopVars>>

\* the pickup counting one coin for every coin picked
RECURSIVE PickedValue_per_coin(_, _, _)
PickedValue_per_coin(p, cs, i) ==
    IF i > Len(cs) THEN 0
    ELSE (IF Touches(p, PICKUP_MARGIN, cs[i]) THEN 1 ELSE 0) + PickedValue_per_coin(p, cs, i + 1)

\* lines 1134-1140: the value picked up
RECURSIVE PickedValue(_, _, _)
PickedValue(p, cs, i) ==
    IF i > Len(cs) THEN 0
    ELSE (IF Touches(p, PICKUP_MARGIN, cs[i]) THEN cs[i].value ELSE 0) + PickedValue(p, cs, i + 1)

\* lines 1131-1143; save_state() after any pickup
Pickup ==
    /\ pc = "pickup"
    /\ pc' = "render"
    /\ IF Active
       THEN /\ player' = [player EXCEPT !.coins = player.coins + PickedValue(player, coins, 1)]
            /\ coins' = SelectSeq(coins, LAMBDA c : ~Touches(player, PICKUP_MARGIN, c))
            /\ save_file' = IF \E i \in 1..Len(coins) : Touches(player, PICKUP_MARGIN, coins[i])
                              THEN Snapshot(player', shop) ELSE save_file
       ELSE UNCHANGED <<player, coins, save_file>>
    /\ hist' = IF Active THEN Logged(hist, "pickup") ELSE hist
    /\ UNCHANGED <<dt, ticks, bullets, enemies, explosions, enemy_bullets, spawner, score,
                   matchUi, panelVars, running, nevents, shop, loopVars>>

(***************************************************************************)
(* The two shops                                                           *)
(***************************************************************************)
\* cost tables of compute_costs (lines 733-743)
CostTable(item) ==
    CASE item = "speed"    -> <<10, 20, 35, 55>>
      [] item = "firerate" -> <<12, 24, 40, 60, 85>>
      [] item = "pierce"   -> <<15, 30, 50>>
      [] item = "size"     -> <<12, 24, 40>>
      [] item = "magnet"   -> <<10, 20, 32, 48>>
      [] item = "hp"       -> <<20, 40, 70, 110, 160>>
      [] item = "dmg"      -> <<18, 36, 60, 90, 130>>
      [] OTHER             -> <<14, 28, 50>>

TierItems == {"speed", "firerate", "pierce", "size", "magnet", "hp", "dmg", "coin"}

\* the level compute_costs indexes the table of an item with
TierLevel(p, sh, item) ==
    CASE item = "speed"    -> sh.speed_levels
      [] item = "firerate" -> sh.firerate_levels
      [] item = "pierce"   -> sh.pierce_levels
      [] item = "size"     -> sh.size_levels
      [] item = "magnet"   -> sh.magnet_levels
      [] item = "hp"       -> sh.hp_levels
      [] item = "dmg"      -> p.bullet_damage_level
      [] OTHER             -> p.coin_gain_level

\* compute_costs()[item]
compute_costs(p, sh, item) ==
    LET lvl == TierLevel(p, sh, item)
    IN  IF lvl < Len(CostTable(item)) THEN CostTable(item)[lvl + 1] ELSE 0

\* the guard `cost > 0 and player.coins >= cost` of every tiered purchase
CanBuy(p, sh, item) ==
    compute_costs(p, sh, item) > 0 /\ p.coins >= compute_costs(p, sh, item)

\* the player after a tiered purchase of item (lines 879-938, 947-1001)
BoughtPlayer(p, sh, item) ==
    LET q == [p EXCEPT !.coins = p.coins - compute_costs(p, sh, item)]
    IN  CASE item = "speed"    -> [q EXCEPT !.speed_multiplier = IDiv(q.speed_multiplier * 112, 100)]
          [] item = "firerate" -> [q EXCEPT !.fire_rate_multiplier = IDiv(q.fire_rate_multiplier * 115, 100)]
          [] item = "pierce"   -> [q EXCEPT !.bullet_pierce_level = q.bullet_pierce_level + 1]
          [] item = "size"     -> [q EXCEPT !.bullet_size_level = q.bullet_size_level + 1]
          [] item = "magnet"   -> [q EXCEPT !.magnet_radius = q.magnet_radius + 60]
          [] item = "hp"       -> [q EXCEPT !.max_health_bonus = q.max_health_bonus + 1,
                                            !.health = Min(PLAYER_MAX_HEALTH + q.max_health_bonus + 1,
                                                           q.health + 1)]
          [] item = "dmg"      -> [q EXCEPT !.bullet_damage_level = q.bullet_damage_level + 1]
          [] OTHER             -> [q EXCEPT !.coin_gain_level = q.coin_gain_level + 1]

\* a tiered purchase that leaves the shop counters alone
BoughtShop_uncounted(sh, item) == sh

\* the shop counters after a tiered purchase of item
BoughtShop(sh, item) ==
    CASE item = "speed"    -> [sh EXCEPT !.speed_levels = sh.speed_levels + 1]
      [] item = "firerate" -> [sh EXCEPT !.firerate_levels = sh.firerate_levels + 1]
      [] item = "pierce"   -> [sh EXCEPT !.pierce_levels = sh.pierce_levels + 1]
      [] item = "size"     -> [sh EXCEPT !.size_levels = sh.size_levels + 1]
      [] item = "magnet"   -> [sh EXCEPT !.magnet_levels = sh.magnet_levels + 1]
      [] item = "hp"       -> [sh EXCEPT !.hp_levels = sh.hp_levels + 1]
      [] OTHER             -> sh

\* int(base_cost * (1 + 0.5 * lvl)) of the item shop
ItemCost(base, lvl) == (base * (2 + lvl)) \div 2

ItemKeys == {"Q", "W", "E", "R", "T", "Y", "U", "I", "O", "P"}

\* the draws of the chest: random.choice and random.randint(5, 12)
ChestChoices == {"armor", "heal", "dmg", "coins"}
ChestBonusSet == {5, 12}

\* the amount an item-shop click on button kc checks and deducts (lines 1234-1252)
ItemCharge(p, kc) ==
    CASE kc = "Q" -> ItemCost(16, p.dodge_level)
      [] kc = "W" -> ItemCost(20, p.regen_level)
      [] kc = "E" -> ItemCost(28, p.lifesteal_level)
      [] kc = "R" -> ItemCost(24, p.crit_level)
      [] kc = "T" -> ItemCost(30, p.aoe_on_kill_level)
      [] kc = "Y" -> ItemCost(12, p.magnet_bonus_level)
      [] kc = "U" -> ItemCost(14, p.bullet_speed_level)
      [] kc = "I" -> 22
      [] kc = "O" -> 18
      [] OTHER    -> 26

\* the price drawn on button kc (items2 and line 1215)
ItemDisplayed(p, kc) ==
    CASE kc = "Q" -> ItemCost(16, p.dodge_level)
      [] kc = "W" -> ItemCost(20, p.regen_level)
      [] kc = "E" -> ItemCost(28, p.lifesteal_level)
      [] kc = "R" -> ItemCost(24, p.crit_level)
      [] kc = "T" -> ItemCost(30, p.aoe_on_kill_level)
      [] kc = "Y" -> ItemCost(12, p.magnet_bonus_level)
      [] kc = "U" -> ItemCost(14, p.bullet_speed_level)
      [] kc = "I" -> ItemCost(22, p.armor)
      [] kc = "O" -> ItemCost(18, 0)
      [] OTHER    -> ItemCost(26, 0)

\* the player after a click on item button kc (lines 1233-1257)
ItemPurchase(p, kc, choice, bonus) ==
    IF p.coins < ItemCharge(p, kc) THEN p
    ELSE LET q == [p EXCEPT !.coins = p.coins - ItemCharge(p, kc)]
             healed == [q EXCEPT !.health = Min(max_health(q), q.health + 1)]
         IN  CASE kc = "Q" -> [q EXCEPT !.dodge_level = q.dodge_level + 1]
               [] kc = "W" -> [q EXCEPT !.regen_level = q.regen_level + 1]
               [] kc = "E" -> [q EXCEPT !.lifesteal_level = q.lifesteal_level + 1]
               [] kc = "R" -> [q EXCEPT !.crit_level = q.crit_level + 1]
               [] kc = "T" -> [q EXCEPT !.aoe_on_kill_level = q.aoe_on_kill_level + 1]
               [] kc = "Y" -> [q EXCEPT !.magnet_bonus_level = q.magnet_bonus_level + 1,
                                        !.magnet_radius = q.magnet_radius + 20]
               [] kc = "U" -> [q EXCEPT !.bullet_speed_level = q.bullet_speed_level + 1]
               [] kc = "I" -> [q EXCEPT !.armor = q.armor + 1]
               [] kc = "O" -> healed
               [] OTHER    ->
                    CASE choice = "armor" -> [q EXCEPT !.armor = q.armor + 1]
                      [] choice = "heal"  -> healed
                      [] choice = "dmg"   -> [q EXCEPT !.bullet_damage_level = q.bullet_damage_level + 1]
                      [] OTHER            -> [q EXCEPT !.coins = q.coins + bonus]

(***************************************************************************)
(* Render section and end of the frame, main.py lines 1145-1305            *)
(***************************************************************************)
\* lines 1165-1170 (shop page keys), 1181-1262 (item shop clicks) and
\* 1278-1279 (boss banner timer).  arrows are the arrow keys held, mouse_down
\* the left button, target the item button under the mouse ("none": no button)
Render ==
    /\ pc = "render"
    /\ pc' = "frame_end"
    /\ \E arrows \in (IF shop_open THEN SUBSET {"LEFT", "RIGHT"} ELSE {{}}) :
         shop_page' = IF ~shop_open THEN shop_page
                      ELSE IF "RIGHT" \in arrows THEN 1
                      ELSE IF "LEFT" \in arrows THEN 0
                      ELSE shop_page
    /\ IF item_shop_open
       THEN \E mouse_down \in BOOLEAN, target \in ItemKeys \cup {"none"},
               choice \in ChestChoices, bonus \in ChestBonusSet :
              /\ target # "P" => choice = "armor"
              /\ choice # "coins" => bonus = 5
              /\ LET click == mouse_down /\ ~item_click_block /\ target # "none"
                 IN  /\ player' = IF click THEN ItemPurchase(player, target, choice, bonus)
                                  ELSE player
                     /\ save_file' = IF click THEN Snapshot(player', shop) ELSE save_file
                     /\ item_click_block' = mouse_down
                     /\ hist' = IF mouse_down /\ ~item_click_block
                                  THEN [hist EXCEPT !.request = <<"item", target>>]
                                  ELSE hist
       ELSE UNCHANGED <<player, save_file, item_click_block, hist>>
    /\ spawner' = IF spawner.boss_active /\ spawner.boss_banner_timer > 0
                    THEN [spawner EXCEPT !.boss_banner_timer = spawner.boss_banner_timer - dt]
                    ELSE spawner
    /\ UNCHANGED <<dt, ticks, bullets, enemies, coins, explosions, enemy_bullets, score,
                   shop_open, paused, item_shop_open, panelVars, running, nevents,
                   shop, loopVars>>

\* lines 1299-1305 and the test of `while running`: r_pressed is keys[K_r]
EndFrame ==
    /\ pc = "frame_end"
    /\ pc' = "frame"
    /\ \E r_pressed \in (IF is_alive(player) THEN {FALSE} ELSE BOOLEAN) :
         LET restart == ~is_alive(player) /\ r_pressed
         IN  /\ save_file' = IF restart THEN Snapshot(player, shop) ELSE save_file
             /\ IF restart \/ ~running
                THEN NewMatch
                ELSE UNCHANGED <<entityVars, matchUi, running, shop>>
    /\ UNCHANGED <<dt, ticks, panelVars, nevents, loopVars, hist>>


(***************************************************************************)
(* Input events, main.py lines 773-1002                                    *)
(***************************************************************************)
\* input events handled from an initial state
MaxEvents == 3

\* the characters of a typed word; a word key stands for the KEYDOWN events
\* of its printable characters, which the text-entry branches append one by one
Chars(word) ==
    CASE word = "god"     -> <<"g", "o", "d">>
      [] word = "money"   -> <<"m", "o", "n", "e", "y">>
      [] word = "level"   -> <<"l", "e", "v", "e", "l">>
      [] word = "killall" -> <<"k", "i", "l", "l", "a", "l", "l">>
      [] word = "spawn"   -> <<"s", "p", "a", "w", "n">>
      [] word = "heal"    -> <<"h", "e", "a", "l">>
      [] word = "armor"   -> <<"a", "r", "m", "o", "r">>
      [] word = "help"    -> <<"h", "e", "l", "p">>
      [] word = "qweasd"  -> <<"q", "w", "e", "a", "s", "d">>
      [] OTHER            -> <<"x">>

WordKeys == {"god", "money", "level", "killall", "spawn", "heal", "armor", "help",
             "qweasd", "x"}

\* the keys with a printable character of their own
PrintableKeys == {"b", "n", "p", "r", "q", "1", "2", "3", "4", "5", "6", "7", "8"}

\* event.unicode of a key, as far as it is printable
Typed(key) ==
    IF key \in WordKeys THEN Chars(key)
    ELSE IF key \in PrintableKeys THEN <<key>>
    ELSE <<>>

\* admin_password (line 676)
admin_password == Chars("qweasd")

\* text[:-1]
DropLast(text) == IF Len(text) = 0 THEN text ELSE SubSeq(text, 1, Len(text) - 1)

\* the draws of the console command spawn (lines 505-515), one per enemy
ConsoleSpawn(i) ==
    LET side == CASE i % 4 = 0 -> "top" [] i % 4 = 1 -> "bottom"
                  [] i % 4 = 2 -> "left" [] OTHER -> "right"
        along == 100 * i
        pos == CASE side = "top"    -> Vec(along, -ENEMY_RADIUS)
                 [] side = "bottom" -> Vec(along, WINDOW_HEIGHT + ENEMY_RADIUS)
                 [] side = "left"   -> Vec(-ENEMY_RADIUS, along)
                 [] OTHER           -> Vec(WINDOW_WIDTH + ENEMY_RADIUS, along)
    IN  NewEnemy(pos, IF i % 2 = 0 THEN ENEMY_SPEED_MIN ELSE ENEMY_SPEED_MAX,
                 ENEMY_RADIUS, 1, FALSE)

\* execute_console_command and the admin keys 1-6: the player after cmd
CheatPlayer(p, cmd) ==
    CASE cmd = "god"   -> [p EXCEPT !.health = GOD_VALUE, !.armor = GOD_VALUE]
      [] cmd = "money" -> [p EXCEPT !.coins = p.coins + 1000]
      [] cmd = "heal"  -> [p EXCEPT !.health = max_health(p)]
      [] cmd = "armor" -> [p EXCEPT !.armor = p.armor + 10]
      [] OTHER         -> p

\* ... the enemy list after cmd
CheatEnemies(es, cmd) ==
    CASE cmd = "killall" -> <<>>
      [] cmd = "spawn"   -> es \o [i \in 1..5 |-> ConsoleSpawn(i)]
      [] OTHER           -> es

\* ... the spawner after cmd
CheatSpawner(sp, cmd) ==
    IF cmd = "level" THEN [sp EXCEPT !.level = sp.level + 10] ELSE sp

\* the command a console text stands for ("" when it is no command)
CommandOf(text) ==
    IF \E w \in WordKeys \ {"qweasd", "x"} : text = Chars(w)
    THEN CHOOSE w \in WordKeys \ {"qweasd", "x"} : text = Chars(w)
    ELSE ""

\* the admin command of a digit key (lines 813-825)
AdminCommand(key) ==
    CASE key = "1" -> "god"
      [] key = "2" -> "money"
      [] key = "3" -> "level"
      [] key = "4" -> "killall"
      [] key = "5" -> "heal"
      [] key = "6" -> "armor"
      [] OTHER     -> ""

\* lines 779-793: KEYDOWN while the console is open
ConsoleKey(key) ==
    /\ console_open' = IF key = "F1" THEN FALSE ELSE console_open
    /\ console_text' =
         CASE key = "F1" -> console_text
           [] key = "RETURN" -> <<>>
           [] key = "BACKSPACE" -> DropLast(console_text)
           [] OTHER -> console_text \o Typed(key)
    /\ LET cmd == IF key = "RETURN" THEN CommandOf(console_text) ELSE ""
       IN  /\ player' = CheatPlayer(player, cmd)
           /\ enemies' = CheatEnemies(enemies, cmd)
           /\ spawner' = CheatSpawner(spawner, cmd)
    /\ UNCHANGED <<bullets, coins, explosions, enemy_bullets, score, matchUi,
                   admin_panel_open, admin_authenticated, admin_input,
                   running, save_file, shop>>

\* lines 795-838: KEYDOWN while the admin panel is open
AdminKey(key) ==
    /\ admin_panel_open' = IF key = "ESC" THEN FALSE ELSE admin_panel_open
    /\ admin_authenticated' =
         IF key = "ESC" THEN FALSE
         ELSE IF ~admin_authenticated /\ key = "RETURN" /\ admin_input = admin_password THEN TRUE
         ELSE admin_authenticated
    /\ admin_input' =
         IF key = "ESC" THEN <<>>
         ELSE IF admin_authenticated THEN admin_input
         ELSE CASE key = "RETURN" ->
                     IF admin_input = admin_password THEN admin_input ELSE <<>>
                [] key = "BACKSPACE" -> DropLast(admin_input)
                [] OTHER -> admin_input \o Typed(key)
    /\ LET cmd == IF key # "ESC" /\ admin_authenticated THEN AdminCommand(key) ELSE ""
       IN  /\ player' = CheatPlayer(player, cmd)
           /\ enemies' = CheatEnemies(enemies, cmd)
           /\ spawner' = CheatSpawner(spawner, cmd)
    /\ UNCHANGED <<bullets, coins, explosions, enemy_bullets, score, matchUi,
                   console_open, console_text, running, save_file, shop>>

\* the tiered item a purchase key buys (lines 878-938), "" for no purchase
KeyItem(key, page) ==
    CASE key = "1" -> "speed"
      [] key = "2" -> "firerate"
      [] key = "3" -> "pierce"
      [] key = "4" -> "size"
      [] key = "5" -> "magnet"
      [] key = "6" -> "hp"
      [] key = "7" /\ page = 1 -> "dmg"
      [] key = "8" /\ page = 1 -> "coin"
      [] OTHER -> ""

\* lines 840-939: KEYDOWN with neither panel open
MainKey(key) ==
    LET alive == is_alive(player)
        paused1 == IF key = "ESC" THEN ~paused ELSE paused
        shop1 == IF key = "ESC" THEN (IF paused1 THEN FALSE ELSE shop_open)
                 ELSE IF key = "b" /\ alive /\ ~paused THEN ~shop_open
                 ELSE IF key = "n" /\ alive /\ ~paused /\ ~item_shop_open THEN FALSE
                 ELSE shop_open
        item1 == IF key = "ESC" THEN item_shop_open
                 ELSE IF key = "b" /\ alive /\ ~paused /\ ~shop_open THEN FALSE
                 ELSE IF key = "n" /\ alive /\ ~paused THEN ~item_shop_open
                 ELSE item_shop_open
        menu == key # "ESC" /\ paused
        page1 == IF key # "ESC" /\ shop1
                   THEN (IF key = "RIGHT" THEN 1 ELSE IF key = "LEFT" THEN 0 ELSE shop_page)
                   ELSE shop_page
        item == IF key # "ESC" /\ shop1 THEN KeyItem(key, page1) ELSE ""
        buy == item # "" /\ CanBuy(player, shop, item)
    IN  /\ console_open' = IF key = "F1" THEN TRUE ELSE console_open
        /\ console_text' = IF key = "F1" THEN <<>> ELSE console_text
        /\ admin_panel_open' = IF key = "F2" THEN TRUE ELSE admin_panel_open
        /\ admin_input' = IF key = "F2" THEN <<>> ELSE admin_input
        /\ admin_authenticated' = IF key = "F2" THEN FALSE ELSE admin_authenticated
        /\ paused' = IF menu /\ key = "p" THEN FALSE ELSE paused1
        /\ shop_open' = shop1
        /\ item_shop_open' = item1
        /\ shop_page' = page1
        /\ running' = IF menu /\ key = "r" THEN FALSE ELSE running
        /\ player' = IF buy THEN BoughtPlayer(player, shop, item) ELSE player
        /\ shop' = IF buy THEN BoughtShop(shop, item) ELSE shop
        /\ save_file' = IF buy THEN Snapshot(player', shop')
                        ELSE IF menu /\ key \in {"r", "q"} THEN Snapshot(player, shop)
                        ELSE save_file
        /\ pc' = IF menu /\ key = "q" THEN "exit" ELSE pc
        /\ UNCHANGED <<bullets, enemies, coins, explosions, enemy_bullets, spawner, score,
                       item_click_block>>

\* lines 777-939: one KEYDOWN event (a word key: the KEYDOWN events of its
\* characters, in a text-entry branch)
KeyDown(key) ==
    /\ pc = "events"
    /\ nevents < MaxEvents
    /\ nevents' = nevents + 1
    /\ key \in WordKeys => console_open \/ (admin_panel_open /\ ~admin_authenticated)
    /\ IF console_open THEN ConsoleKey(key) /\ pc' = pc
       ELSE IF admin_panel_open THEN AdminKey(key) /\ pc' = pc
       ELSE MainKey(key)
    /\ hist' = [hist EXCEPT !.request = <<"key", key>>]
    /\ UNCHANGED <<dt, ticks, loopVars>>

\* draw_shop (lines 589-602): the item drawn at row idx of a page, "" if none
ShopRow(page, idx) ==
    IF page = 0
    THEN CASE idx = 0 -> "speed" [] idx = 1 -> "firerate" [] idx = 2 -> "pierce"
           [] idx = 3 -> "size"  [] idx = 4 -> "magnet"   [] idx = 5 -> "hp"
           [] OTHER -> ""
    ELSE CASE idx = 0 -> "dmg" [] idx = 1 -> "coin" [] OTHER -> ""

\* lines 947-1002: the item the click handler buys for button idx
ClickItem(page, idx) ==
    CASE idx = 0 -> "speed"
      [] idx = 1 -> "firerate"
      [] idx = 2 -> "pierce"
      [] idx = 3 -> "size"
      [] idx = 4 -> "magnet"
      [] idx = 5 /\ page = 0 -> "hp"
      [] OTHER -> ""

\* lines 940-1002: MOUSEBUTTONDOWN on button idx of the open shop
ShopClick(idx) ==
    /\ pc = "events"
    /\ nevents < MaxEvents
    /\ nevents' = nevents + 1
    /\ shop_open
    /\ ShopRow(shop_page, idx) # ""
    /\ LET item == ClickItem(shop_page, idx)
           buy == item # "" /\ CanBuy(player, shop, item)
       IN  /\ player' = IF buy THEN BoughtPlayer(player, shop, item) ELSE player
           /\ shop' = IF buy THEN BoughtShop(shop, item) ELSE shop
           /\ save_file' = IF buy THEN Snapshot(player', shop') ELSE save_file
    /\ hist' = [hist EXCEPT !.request = <<"click", ShopRow(shop_page, idx)>>]
    /\ UNCHANGED <<pc, dt, ticks, bullets, enemies, coins, explosions, enemy_bullets, spawner,
                   score, matchUi, panelVars, running, loopVars>>

(***************************************************************************)
(* Combat frames.  Initial states: besides the state at the start of run(), the           *)
(* exploration starts from states in the middle of a match, each reached   *)
(* by play from the start (the comments say how), so that boss fights,     *)
(* which take hundreds of frames to reach, are within the explored frames. *)
(***************************************************************************)
\* a bullet in flight fired from position pos toward aim (it has hit nothing)
FlyingBullet(p, pos, aim, age) ==
    [NewBullet([p EXCEPT !.position = pos], aim) EXCEPT !.lifetime = BULLET_LIFETIME_SEC - age]

\* a plain enemy of the given level that has moved to pos
PlainAt(pos, speed, hp) == NewEnemy(pos, speed, ENEMY_RADIUS, hp, FALSE)

\* the boss of a level, moved to pos and shot down to health hp
BossAt(sp, pos, hp) ==
    [NewBoss(sp, "right", 100) EXCEPT !.position = pos, !.health = hp]

\* n-fold acceleration of the spawn interval (n periods of 20 s played)
RECURSIVE IntervalAfter(_)
IntervalAfter(n) ==
    IF n = 0 THEN ENEMY_SPAWN_EVERY_SEC
    ELSE Tighten(IntervalAfter(n - 1), ENEMY_SPAWN_ACCEL_FACTOR)

\* Boss fight at level 1, about a minute in: 30 kills made the boss appear,
\* one more enemy was killed since, the boss has been shot down to hp health
\* points and stands right of the player, a later-spawned plain enemy beside
\* it, and one bullet is about to reach both.  The pierce level came with the
\* save file; 12 coins were picked up (the last pickup wrote the save file).
BossFight(hp, pierce) ==
    LET sh == [NewShop EXCEPT !.pierce_levels = pierce]
        p == [NewPlayer(Center) EXCEPT !.bullet_pierce_level = pierce,
                                       !.shoot_cooldown = 100,
                                       !.coins = 12]
        sp == [NewSpawner EXCEPT !.timer = 500,
                                 !.current_interval = IntervalAfter(2),
                                 !.accel_timer = 19990,
                                 !.kills_this_level = 31,
                                 !.boss_active = TRUE]
    IN  /\ MatchAt(p, sh, sp, 31,
                   << BossAt(sp, Vec(540, 270), hp), PlainAt(Vec(520, 270), 80, 1) >>,
                   << FlyingBullet(p, Vec(497, 270), Vec(WINDOW_WIDTH, 270), 30) >>,
                   <<>>, <<>>, Snapshot(p, sh))
        /\ hist = NewHist

\* Late in level 1: 29 kills, no boss yet.  The player is down to one health
\* point (with armor points left from earlier levels' drops or none), two
\* plain enemies have closed in from the right and from below, and a bullet is
\* about to reach a third enemy: the 30th kill.
LateLevel(armor) ==
    LET p == [NewPlayer(Center) EXCEPT !.health = 1, !.armor = armor, !.coins = 3]
        sp == [NewSpawner EXCEPT !.timer = 700,
                                 !.current_interval = IntervalAfter(2),
                                 !.accel_timer = 8000,
                                 !.kills_this_level = 29]
    IN  /\ MatchAt(p, NewShop, sp, 29,
                   << PlainAt(Vec(507, 270), 80, 1), PlainAt(Vec(480, 298), 140, 1),
                      PlainAt(Vec(560, 270), 80, 1) >>,
                   << FlyingBullet(p, Vec(546, 270), Vec(WINDOW_WIDTH, 270), 110) >>,
                   <<>>, <<>>, Snapshot(p, NewShop))
        /\ hist = NewHist

\* Level 2, some minutes in: the item shop sold the player a dodge, a regen,
\* a lifesteal and an AOE level; a shooter enemy is about to fire, one of its
\* bullets is about to reach the player, and a coin lies within pickup reach.
ShooterDuel ==
    LET p == [NewPlayer(Center) EXCEPT !.health = 2, !.armor = 1, !.coins = 5,
                                       !.dodge_level = 1, !.regen_level = 1,
                                       !.lifesteal_level = 1, !.aoe_on_kill_level = 1,
                                       !.regen_timer = 10390]
        sp == [NewSpawner EXCEPT !.timer = 900,
                                 !.current_interval = Tighten(IntervalAfter(4), BOSS_KILL_FACTOR),
                                 !.accel_timer = 3000,
                                 !.level = 2,
                                 !.kills_this_level = 7]
        shooter == [NewShooter(Vec(700, 270), 89, ENEMY_RADIUS + 2, 4, 1480)
                      EXCEPT !.shoot_timer = 10, !.health = 1]
    IN  /\ MatchAt(p, NewShop, sp, 38,
                   << shooter >>,
                   << FlyingBullet(p, Vec(676, 270), Vec(WINDOW_WIDTH, 270), 300) >>,
                   << NewCoin(Vec(480, 290), 1, Vec(0, 0)) >>,
                   << [NewEnemyBullet(Vec(500, 270), Vec(-232, 0)) EXCEPT !.lifetime = 2100] >>,
                   Snapshot(p, NewShop))
        /\ hist = NewHist

Init ==
    \/ FreshRun(<<>>)
    \/ \E hp \in {1, 2}, pierce \in {0, 1} : BossFight(hp, pierce)
    \/ \E armor \in {0, 1} : LateLevel(armor)
    \/ ShooterDuel

Next ==
    \/ StartFrame
    \/ PlayerPhase
    \/ BulletsPhase
    \/ EnemyBulletsPhase
    \/ SpawnerPhase
    \/ EnemiesPhase
    \/ CoinsPhase
    \/ ExplosionsPhase
    \/ BulletVsEnemy
    \/ PurgeAfterPass
    \/ BossGate
    \/ EnemiesVsPlayer
    \/ EnemyBulletsVsPlayer
    \/ Pickup
    \/ Render
    \/ EndFrame

Spec == Init /\ [][Next]_vars

(***************************************************************************)
(* Method-level specifications.  Each drives one object of a match through *)
(* its methods, in the orders run() can call them; the rest of the state   *)
(* of run() is held at its value at the start of the match.                *)
(***************************************************************************)
\* method calls made on the object from an initial state
MaxCalls == 6

\* calls made from an initial state where each call multiplies the states
MaxMoves == 3

nonPlayer == <<pc, dt, ticks, bullets, enemies, coins, explosions, enemy_bullets, spawner,
               score, uiVars, shop, loopVars>>
nonSpawner == <<pc, dt, ticks, player, bullets, enemies, coins, explosions, enemy_bullets,
                score, uiVars, shop, loopVars>>

\* a player with armor points (boss drops, item shop) and a dodge level (item
\* shop) that has lost health, the invulnerability of the last hit run out
HitTarget(armor, health, dodge) ==
    /\ MatchAt([NewPlayer(Center) EXCEPT !.armor = armor, !.health = health,
                                         !.dodge_level = dodge],
               NewShop, NewSpawner, 0, <<>>, <<>>, <<>>, <<>>, <<>>)
    /\ hist = [NewHist EXCEPT !.start = <<armor, health, dodge>>]

\* player.take_hit() (lines 1116, 1125).  The collision blocks start only
\* with a living player; inside a block, calls after a lethal hit find the
\* invulnerability timer running.
CallTakeHit ==
    /\ hist.calls < MaxCalls
    /\ is_alive(player) \/ player.invuln_timer > 0
    /\ \E roll \in BOOLEAN :
         /\ player' = take_hit(player, roll)
         /\ hist' = [hist EXCEPT
                       !.calls = hist.calls + 1,
                       !.landed = hist.landed +
                                  (IF player.invuln_timer <= 0 /\ ~(player.dodge_level > 0 /\ roll)
                                   THEN 1 ELSE 0)]
    /\ UNCHANGED nonPlayer

\* player.update(dt, keys) with no movement key held (line 1010)
CallPlayerUpdate ==
    /\ is_alive(player)
    /\ \E d \in DtSet : player' = PlayerUpdate(player, d, Vec(0, 0))
    /\ UNCHANGED <<nonPlayer, hist>>

InitTakeHit ==
    \E armor \in 0..2, health \in 1..PLAYER_MAX_HEALTH, dodge \in {0, 1} :
        HitTarget(armor, health, dodge)

NextTakeHit ==
    \/ CallTakeHit
    \/ CallPlayerUpdate

SpecTakeHit == InitTakeHit /\ [][NextTakeHit]_vars

\* the spawner of level 1 after n accelerations of the spawn interval
SpawnerAt(kills, active, n, accel) ==
    /\ MatchAt(NewPlayer(Center), NewShop,
               [NewSpawner EXCEPT !.timer = IntervalAfter(n),
                                  !.current_interval = IntervalAfter(n),
                                  !.accel_timer = accel,
                                  !.kills_this_level = kills,
                                  !.boss_active = active],
               0, <<>>, <<>>, <<>>, <<>>, <<>>)
    /\ hist = [NewHist EXCEPT !.start = <<IntervalAfter(n), kills>>]

\* spawner.update(dt) (line 1028)
CallSpawnerUpdate ==
    /\ hist.calls < MaxCalls
    /\ \E d \in DtSet : spawner' = SpawnerUpdate(spawner, d)
    /\ hist' = [hist EXCEPT !.calls = hist.calls + 1, !.boss_killed = FALSE]
    /\ UNCHANGED nonSpawner

\* spawner.timer = spawner.current_interval after a regular spawn (lines 1029-1031)
ResetSpawnTimer ==
    /\ hist.calls < MaxCalls
    /\ spawner.timer <= 0
    /\ spawner' = [spawner EXCEPT !.timer = spawner.current_interval]
    /\ hist' = [hist EXCEPT !.calls = hist.calls + 1, !.boss_killed = FALSE]
    /\ UNCHANGED nonSpawner

\* spawner.kills_this_level += 1 (line 1090)
CountKill ==
    /\ hist.calls < MaxCalls
    /\ spawner' = [spawner EXCEPT !.kills_this_level = spawner.kills_this_level + 1]
    /\ hist' = [hist EXCEPT !.calls = hist.calls + 1, !.boss_killed = FALSE]
    /\ UNCHANGED nonSpawner

\* spawner.spawn_boss(...) under the test of line 1109
CallSpawnBoss ==
    /\ hist.calls < MaxCalls
    /\ should_spawn_boss(spawner)
    /\ spawner' = AfterSpawnBoss(spawner)
    /\ hist' = [hist EXCEPT !.calls = hist.calls + 1, !.boss_killed = FALSE]
    /\ UNCHANGED nonSpawner

\* spawner.on_boss_killed() (line 1082): there is a boss to kill
CallOnBossKilled ==
    /\ hist.calls < MaxCalls
    /\ spawner.boss_active
    /\ spawner' = on_boss_killed(spawner)
    /\ hist' = [hist EXCEPT !.calls = hist.calls + 1, !.boss_killed = TRUE]
    /\ UNCHANGED nonSpawner

\* accelerations of the spawn interval before the initial state: at the start,
\* and on either side of the floor of a quarter of a second
AccelSet == {0, 17, 18}

InitSpawner ==
    \E ka \in {<<0, FALSE>>, <<29, FALSE>>, <<30, TRUE>>, <<44, TRUE>>},
       n \in AccelSet, accel \in {0, 19990} :
        SpawnerAt(ka[1], ka[2], n, accel)

NextSpawner ==
    \/ CallSpawnerUpdate
    \/ ResetSpawnTimer
    \/ CountKill
    \/ CallSpawnBoss
    \/ CallOnBossKilled

SpecSpawner == InitSpawner /\ [][NextSpawner]_vars

(***************************************************************************)
(* Frames with input events: the shops                                     *)
(***************************************************************************)
\* the keys pressed and the shop buttons clicked
KeySet == {"b", "n", "ESC", "RIGHT", "LEFT", "1", "3", "7", "8"}
ClickSet == {0, 1, 5}

KeyEvent == \E key \in KeySet : KeyDown(key)
ClickEvent == \E idx \in ClickSet : ShopClick(idx)

\* the player and shop counters after n purchases of item
RECURSIVE AfterPurchases(_, _, _, _)
AfterPurchases(p, sh, item, n) ==
    IF n = 0 THEN <<p, sh>>
    ELSE LET prev == AfterPurchases(p, sh, item, n - 1)
         IN  <<BoughtPlayer(prev[1], prev[2], item), BoughtShop(prev[2], item)>>

\* Early in level 1 with coins in hand and three kills made, one enemy far
\* off; speed is the number of speed levels bought in earlier matches (4: the
\* upgrade is maxed), restored from the save file.
Shopping(purse, speed) ==
    LET rich == [NewPlayer(Center) EXCEPT !.coins = 120 + purse]
        ps == AfterPurchases(rich, NewShop, "speed", speed)
        p == [ps[1] EXCEPT !.coins = purse]
        sp == [NewSpawner EXCEPT !.timer = 1000, !.accel_timer = 9000, !.kills_this_level = 3]
    IN  /\ MatchAt(p, ps[2], sp, 3, << PlainAt(Vec(900, 100), 80, 1) >>,
                   <<>>, <<>>, <<>>, Snapshot(p, ps[2]))
        /\ hist = NewHist

InitInput == \E purse \in {12, 40}, speed \in {0, 4} : Shopping(purse, speed)

NextInput ==
    \/ KeyEvent
    \/ ClickEvent
    \/ StartFrame
    \/ PlayerPhase
    \/ BulletsPhase
    \/ EnemyBulletsPhase
    \/ SpawnerPhase
    \/ EnemiesPhase
    \/ CoinsPhase
    \/ ExplosionsPhase
    \/ BulletVsEnemy
    \/ PurgeAfterPass
    \/ BossGate
    \/ EnemiesVsPlayer
    \/ EnemyBulletsVsPlayer
    \/ Pickup
    \/ Render
    \/ EndFrame

SpecInput == InitInput /\ [][NextInput]_vars

(***************************************************************************)
(* Frames with the developer console and the pause menu                    *)
(***************************************************************************)
\* F1 opens the console, a command word and RETURN run it; ESC pauses and R in
\* the pause menu restarts the match
CheatKeySet == {"F1", "RETURN", "god", "heal", "ESC", "r"}

CheatKeyEvent == \E key \in CheatKeySet : KeyDown(key)

InitCheats ==
    \/ LateLevel(0)
    \/ ShooterDuel

NextCheats ==
    \/ CheatKeyEvent
    \/ StartFrame
    \/ PlayerPhase
    \/ BulletsPhase
    \/ EnemyBulletsPhase
    \/ SpawnerPhase
    \/ EnemiesPhase
    \/ CoinsPhase
    \/ ExplosionsPhase
    \/ BulletVsEnemy
    \/ PurgeAfterPass
    \/ BossGate
    \/ EnemiesVsPlayer
    \/ EnemyBulletsVsPlayer
    \/ Pickup
    \/ Render
    \/ EndFrame

SpecCheats == InitCheats /\ [][NextCheats]_vars

(***************************************************************************)
(* Frames of a suspended simulation                                        *)
(***************************************************************************)
\* what suspends the simulation in an initial state ("none": it runs)
SuspendKinds == {"none", "paused", "shop", "item_shop", "console", "admin", "dead"}

\* Level 2, the 40th kill of the level made a moment ago (the AOE level came
\* from the item shop): its explosion is expanding, its coin is rolling, the
\* boss has been spawned and its banner is shown, a shooter enemy's bullet and
\* one of the player's are in flight.  Then the player pressed ESC, B, N, F1
\* or F2, or was killed by a hit (kind).
Frozen(kind) ==
    LET p == [NewPlayer(Center) EXCEPT !.coins = 30, !.aoe_on_kill_level = 1,
                                       !.health = IF kind = "dead" THEN 0 ELSE 3,
                                       !.invuln_timer = IF kind = "dead" THEN INVULN_ON_HIT_SEC
                                                        ELSE 0]
        sp == [NewSpawner EXCEPT !.timer = 800,
                                 !.current_interval = Tighten(IntervalAfter(4), BOSS_KILL_FACTOR),
                                 !.accel_timer = 5000,
                                 !.level = 2,
                                 !.kills_this_level = 40,
                                 !.boss_active = TRUE,
                                 !.boss_banner_timer = 700]
        boss == [NewBoss(sp, "right", 100) EXCEPT !.position = Vec(986, 270)]
        shooter == [NewShooter(Vec(700, 270), 89, ENEMY_RADIUS + 2, 4, 1480)
                      EXCEPT !.shoot_timer = 900]
    IN  /\ pc = "frame"
        /\ dt = 0
        /\ ticks = 0
        /\ player = p
        /\ bullets = << FlyingBullet(p, Vec(600, 200), Vec(WINDOW_WIDTH, 200), 200) >>
        /\ enemies = << shooter, boss >>
        /\ coins = << NewCoin(Vec(480, 350), 1, Vec(40, -40)) >>
        /\ explosions = << [ position |-> Vec(520, 300), radius |-> 16, max_radius |-> 50,
                             damage |-> 2, lifetime |-> 200 ] >>
        /\ enemy_bullets = << [NewEnemyBullet(Vec(600, 270), Vec(-232, 0))
                                 EXCEPT !.lifetime = 2500] >>
        /\ spawner = sp
        /\ score = 70
        /\ shop_open = (kind = "shop")
        /\ shop_page = 0
        /\ paused = (kind = "paused")
        /\ item_shop_open = (kind = "item_shop")
        /\ item_click_block = FALSE
        /\ console_open = (kind = "console")
        /\ admin_panel_open = (kind = "admin")
        /\ admin_authenticated = FALSE
        /\ console_text = <<>>
        /\ admin_input = <<>>
        /\ running = TRUE
        /\ save_file = Snapshot(p, NewShop)
        /\ nevents = 0
        /\ shop = NewShop
        /\ ei = 1
        /\ alive_enemies = <<>>
        /\ hist = [NewHist EXCEPT !.start = <<kind>>]

InitFrozen == \E kind \in SuspendKinds : Frozen(kind)

SpecFrozen == InitFrozen /\ [][Next]_vars

(***************************************************************************)
(* Frames from the start of a bullet-vs-enemy pass                         *)
(***************************************************************************)
\* where the enemy of the scenarios below stands
PassEnemyAt == Vec(810, 270)

\* The simulation at line 1053 of a frame, the updates of the frame done.
\* stage "first": two seconds into a first match, the player has walked right
\* to meet the first enemy (health 1) and fired at it; no kill yet.
\* stage "late": level 4, the plain enemies have health 2.
\* nb bullets overlap the enemy; dmg and pierce are the bullet damage and
\* pierce levels restored from the save file.
PassStart(stage, nb, dmg, pierce) ==
    LET first == stage = "first"
        sh == [NewShop EXCEPT !.pierce_levels = pierce]
        p == [NewPlayer(Vec(770, 270)) EXCEPT !.bullet_damage_level = dmg,
                                              !.bullet_pierce_level = pierce,
                                              !.shoot_cooldown = 90]
        sp == IF first
              THEN [NewSpawner EXCEPT !.timer = 100, !.accel_timer = 2100]
              ELSE [NewSpawner EXCEPT !.timer = 300,
                                      !.current_interval =
                                          Tighten(Tighten(Tighten(IntervalAfter(9),
                                              BOSS_KILL_FACTOR), BOSS_KILL_FACTOR), BOSS_KILL_FACTOR),
                                      !.accel_timer = 7000,
                                      !.level = 4,
                                      !.kills_this_level = 12]
        e == spawn_enemy(sp, "right", 270, ENEMY_SPEED_MIN, FALSE)
    IN  /\ pc = "bullets_vs_enemies"
        /\ dt = 16
        /\ ticks = 1
        /\ player = p
        /\ bullets = [i \in 1..nb |->
                        FlyingBullet(p, Vec(800 - 6 * i, 270), Vec(WINDOW_WIDTH, 270), 50 * i)]
        /\ enemies = << [e EXCEPT !.position = PassEnemyAt] >>
        /\ coins = <<>>
        /\ explosions = <<>>
        /\ enemy_bullets = <<>>
        /\ spawner = sp
        /\ score = IF first THEN 0 ELSE 162
        /\ shop_open = FALSE
        /\ shop_page = 0
        /\ paused = FALSE
        /\ item_shop_open = FALSE
        /\ item_click_block = FALSE
        /\ console_open = FALSE
        /\ admin_panel_open = FALSE
        /\ admin_authenticated = FALSE
        /\ console_text = <<>>
        /\ admin_input = <<>>
        /\ running = TRUE
        /\ save_file = Snapshot(p, sh)
        /\ nevents = 0
        /\ shop = sh
        /\ ei = 1
        /\ alive_enemies = <<>>
        /\ hist = [NewHist EXCEPT
                     !.start = <<stage, nb, dmg, pierce>>,
                     !.log = << "player.update", "bullets.update", "enemy_bullets.update",
                                "spawner.update", "enemies.update", "coins.update",
                                "explosions.update", "bullets_vs_enemies" >>]

InitPass ==
    \E stage \in {"first", "late"}, nb \in {1, 2}, dmg \in {0, 1}, pierce \in {0, 1} :
        PassStart(stage, nb, dmg, pierce)

SpecPass == InitPass /\ [][Next]_vars

(***************************************************************************)
(* Frames from the start of run() with a save file on disk                 *)
(***************************************************************************)
\* a player of earlier matches: upgrades bought, coins and armor in hand
Veteran ==
    AfterPurchases([NewPlayer(Center) EXCEPT !.coins = 67, !.armor = 2], NewShop, "hp", 2)

\* The contents of save.json at the start of run(): the snapshot of a veteran;
\* an empty object; files that lack keys (an older version's, a hand-made
\* one); files with a value that is no number; a file that is no JSON object.
SaveFiles ==
    { Snapshot(Veteran[1], Veteran[2]),
      << [k \in {} |-> 0] >>,
      << [coins |-> 7, max_health_bonus |-> 2] >>,
      << [armor |-> 3, speed_multiplier |-> 1120, speed_levels |-> 1, hp_levels |-> 1] >>,
      << [max_health_bonus |-> 1, hp_levels |-> 1, malformed |-> {"armor"}] >>,
      << [coins |-> 9, armor |-> 1, pierce_levels |-> 2, malformed |-> {"size_levels"}] >>,
      << [malformed |-> {LoadOrder[i] : i \in 1..Len(LoadOrder)}] >> }

InitLoad ==
    \/ \E sf \in SaveFiles : FreshRun(sf)
    \/ LateLevel(0)

SpecLoad == InitLoad /\ [][Next]_vars

(***************************************************************************)
(* Properties                                                              *)
(***************************************************************************)
\* C1: at the end of any tick whose bullet-vs-enemy pass killed a boss,
\* spawner.kills_this_level equals 0.
C1_KillsZeroAfterBossKillTick ==
    (pc = "frame_end" /\ hist.boss_killed) => spawner.kills_this_level = 0

\* C2: a bullet created with pierce_remaining = p deals damage in at most
\* p + 1 hits over its whole life; once consumed it damages no further enemy,
\* later enemies of the same pass included.
C2_AtMostPiercePlusOneHits ==
    \A i \in 1..Len(bullets) : bullets[i].hits <= bullets[i].pierce0 + 1

\* the step of the bullet-vs-enemy pass that kills the boss
BossKillStep == ~hist.boss_killed /\ hist'.boss_killed

\* C3: the kill of a boss in the bullet-vs-enemy pass adds exactly 14 coins of
\* value 2 to the coin population, raises spawner.level by exactly 1, clears
\* boss_active and makes level_transition_timer positive; and should_spawn()
\* is false for as long as the transition timer is above 0.
C3_BossKillEffects ==
    /\ [](spawner.level_transition_timer > 0 => ~should_spawn(spawner))
    /\ [][BossKillStep =>
            /\ Len(coins') = Len(coins) + 14
            /\ SubSeq(coins', 1, Len(coins)) = coins
            /\ \A i \in (Len(coins) + 1)..Len(coins') : coins'[i].value = 2
            /\ spawner'.level = spawner.level + 1
            /\ ~spawner'.boss_active
            /\ spawner'.level_transition_timer > 0
            /\ ~should_spawn(spawner')]_vars

\* a boss has been killed this tick: its 14 coins lie there, level 2 has begun
C3_BossKilled ==
    /\ hist.boss_killed
    /\ Len(coins) >= 14
    /\ spawner.level = 2
    /\ ~spawner.boss_active
    /\ spawner.level_transition_timer > 0

\* C4: should_spawn_boss() is false immediately after on_boss_killed(), and
\* whenever it is true, boss_active is false and kills_this_level has reached
\* 30 + (level - 1) * 10 for the current level.
C4_NoBossRightAfterBossKill ==
    /\ hist.boss_killed => ~should_spawn_boss(spawner)
    /\ should_spawn_boss(spawner) =>
         /\ ~spawner.boss_active
         /\ spawner.kills_this_level >= 30 + (spawner.level - 1) * 10

\* on_boss_killed() has just returned on a spawner of level 1 that counted 44
\* kills, more than the 40 that level 2 asks for
C4_AfterOnBossKilled ==
    /\ hist.boss_killed
    /\ hist.calls = 1
    /\ hist.start[2] = 44
    /\ spawner.level = 2
    /\ ~should_spawn_boss(spawner)

\* the bosses of an enemy list
BossesIn(es) == {i \in 1..Len(es) : es[i].is_boss}

\* the match is replaced by a new one at the end of this frame (lines 1299-1305)
MatchEnds == pc = "frame_end" /\ spawner' = NewSpawner /\ enemies' = <<>>

\* C5: the enemy population holds at most one enemy with is_boss in every
\* reachable state; a boss is spawned only while boss_active is false, and the
\* spawn sets boss_active, which stays set until that boss is killed.
C5_AtMostOneBoss ==
    /\ [](Cardinality(BossesIn(enemies)) <= 1)
    /\ [][Cardinality(BossesIn(enemies')) > Cardinality(BossesIn(enemies))
             => ~spawner.boss_active /\ spawner'.boss_active]_vars
    /\ [][spawner.boss_active /\ ~spawner'.boss_active
             => BossKillStep \/ MatchEnds]_vars

\* the boss gate has just spawned a boss (it is unhurt)
C5_BossSpawned ==
    /\ pc = "enemies_vs_player"
    /\ \E i \in 1..Len(enemies) :
         enemies[i].is_boss /\ enemies[i].health = enemies[i].max_health

\* C6: over any sequence of spawner.update(dt) and on_boss_killed() calls,
\* current_interval never increases and is never below 0.25 s.
C6_IntervalShrinksToFloor ==
    /\ [](spawner.current_interval >= 250)
    /\ [][spawner'.current_interval <= spawner.current_interval]_vars

\* an acceleration from an interval just above the floor has hit the floor
C6_FloorReached ==
    /\ hist.start[1] = IntervalAfter(17)
    /\ IntervalAfter(17) > 250
    /\ spawner.current_interval = 250

\* a step requests the tiered upgrade item: by its purchase key in the open
\* shop, or by a click on the button that shows it
TierRequested(item) ==
    /\ nevents' = nevents + 1
    /\ \/ hist'.request = <<"click", item>>
       \/ /\ hist'.request[1] = "key"
          /\ ~console_open /\ ~admin_panel_open /\ shop_open
          /\ KeyItem(hist'.request[2], shop_page) = item

\* a step requests the item of button kc of the item shop
ItemRequested(kc) ==
    /\ pc = "render"
    /\ item_shop_open /\ ~item_click_block /\ item_click_block'
    /\ hist'.request = <<"item", kc>>

\* C7: player.coins is never negative, and a purchase request (tiered shop by
\* key or click, item shop) whose cost exceeds player.coins or whose upgrade is
\* maxed leaves the coins, every upgrade level and every player stat unchanged.
C7_DeclinedPurchaseChangesNothing ==
    /\ [](player.coins >= 0)
    /\ [][/\ \A item \in TierItems :
               TierRequested(item) /\ ~CanBuy(player, shop, item)
                   => player' = player /\ shop' = shop
          /\ \A kc \in ItemKeys :
               ItemRequested(kc) /\ ItemCharge(player, kc) > player.coins
                   => player' = player /\ shop' = shop]_vars

\* C8 as stated: from armor = 2, health = 5 (dodge_level = 0, invuln_timer = 0)
\* one take_hit gives armor = 1, health = 5, and two more give armor = 0,
\* health = 4.
C8_ThreeHits ==
    hist.start = <<2, 5, 0>> =>
        /\ hist.calls = 1 => player.armor = 1 /\ player.health = 5
        /\ hist.calls = 3 => player.armor = 0 /\ player.health = 4

\* C8: from armor = 2, health = 5 (dodge_level = 0, invuln_timer = 0) one
\* take_hit gives armor = 1, health = 5, and two more, each made once the
\* invulnerability timer of the hit before has run down to 0 or below, give
\* armor = 0, health = 4.
C8_ThreeHitsApart ==
    hist.start = <<2, 5, 0>> =>
        /\ hist.calls = 1 => player.armor = 1 /\ player.health = 5
        /\ (hist.calls = 3 /\ hist.landed = 3) => player.armor = 0 /\ player.health = 4

\* three calls from armor = 2, health = 5, each with the timer run down
C8_ThreeLanded ==
    /\ hist.start = <<2, 5, 0>>
    /\ hist.calls = 3
    /\ hist.landed = 3

\* C9: every take_hit that is neither blocked by the invulnerability timer nor
\* dodged removes exactly one point, from armor if armor > 0 and from health
\* otherwise; health never decreases while armor > 0.
C9_OnePointPerHit ==
    [][/\ hist'.landed = hist.landed + 1 =>
            IF player.armor > 0
            THEN player'.armor = player.armor - 1 /\ player'.health = player.health
            ELSE player'.armor = player.armor /\ player'.health = player.health - 1
       /\ player.armor > 0 => player'.health >= player.health]_vars

\* one hit has taken the last armor point and the next one a health point
C9_ArmorThenHealth ==
    /\ hist.start[1] = 1
    /\ hist.landed = 2
    /\ player.armor = 0
    /\ player.health = hist.start[2] - 1

\* C10: player.health, player.armor and the health of every enemy are at
\* least 0 in every reachable state.
C10_NothingNegative ==
    /\ player.health >= 0
    /\ player.armor >= 0
    /\ \A i \in 1..Len(enemies) : enemies[i].health >= 0

\* a hit has taken the last health point of a player without armor
C10_PlayerDead ==
    /\ ticks > 0
    /\ player.health = 0
    /\ player.armor = 0
    /\ player.invuln_timer = INVULN_ON_HIT_SEC

\* C11: player.health <= player.max_health() in every reachable state, after
\* any sequence of ticks, purchases, snapshot loads and admin/console
\* operations (god, heal, level, armor, money, killall, spawn).
C11_HealthAtMostMax == player.health <= max_health(player)

\* the blocks of the frame loop in the order the source runs them
FrameOrder ==
    << "player.update", "bullets.update", "enemy_bullets.update", "spawner.update",
       "enemies.update", "coins.update", "explosions.update", "bullets_vs_enemies",
       "cleanup", "boss_gate", "enemies_vs_player", "enemy_bullets_vs_player", "pickup" >>

EntityUpdates ==
    { "player.update", "bullets.update", "enemy_bullets.update", "enemies.update",
      "coins.update", "explosions.update" }

CollisionPasses == { "bullets_vs_enemies", "enemies_vs_player", "enemy_bullets_vs_player" }

Ran(log, a) == \E i \in 1..Len(log) : log[i] = a

\* every run of block a in the log comes before every run of block b
Before(log, a, b) ==
    \A i, j \in 1..Len(log) : log[i] = a /\ log[j] = b => i < j

TickStep ==
    /\ nevents' = nevents
    /\ ~(pc = "render" /\ item_shop_open /\ ~item_click_block /\ item_click_block')
    /\ ~MatchEnds

\* the step runs no collision pass
NoPassRuns ==
    \A i \in 1..Len(hist'.log) :
        hist'.log[i] \in CollisionPasses => i <= Len(hist.log) /\ hist.log[i] = hist'.log[i]

\* C13 as stated: in a tick where the simulation is suspended (paused, shop,
\* item shop, console or admin panel open) or the player is dead, no collision
\* pass runs: player health, armor and position, the enemy population, the
\* spawner state, the score and player.coins are left unchanged by the tick.
C13_SuspendedTickKeepsSpawner ==
    [][~Active /\ TickStep =>
         /\ NoPassRuns
         /\ player'.health = player.health
         /\ player'.armor = player.armor
         /\ player'.position = player.position
         /\ player'.coins = player.coins
         /\ enemies' = enemies
         /\ score' = score
         /\ spawner' = spawner]_vars

\* C13: in a tick where the simulation is suspended or the player is dead, no
\* collision pass runs: player health, armor and position, the enemy
\* population, the score, player.coins and the spawner state other than its
\* boss_banner_timer are left unchanged by the tick.
C13_SuspendedTickKeepsGameplay ==
    [][~Active /\ TickStep =>
         /\ NoPassRuns
         /\ player'.health = player.health
         /\ player'.armor = player.armor
         /\ player'.position = player.position
         /\ player'.coins = player.coins
         /\ enemies' = enemies
         /\ score' = score
         /\ [spawner' EXCEPT !.boss_banner_timer = spawner.boss_banner_timer] = spawner]_vars

\* a tick with the shop open is over: only the unguarded updates ran, and the
\* boss banner has counted down
C13_ShopTickDone ==
    /\ pc = "frame_end"
    /\ shop_open
    /\ hist.log = << "bullets.update", "enemy_bullets.update", "coins.update",
                     "explosions.update" >>
    /\ spawner.boss_banner_timer < 700

\* C14: while the simulation is frozen by pause, a tick leaves every entity
\* population unchanged: player bullets, enemy bullets, coins and explosions
\* keep their position, velocity, lifetime and membership in their lists.
C14_PauseFreezesPopulations ==
    [][paused /\ TickStep =>
         /\ bullets' = bullets
         /\ enemy_bullets' = enemy_bullets
         /\ coins' = coins
         /\ explosions' = explosions]_vars

\* the pass a scenario starts with is over and its cleanup done
FirstPassDone == pc = "boss_gate" /\ ticks = 1

\* C15: starting from score 0 and kills_this_level 0 with one plain enemy of
\* health 1 and one player bullet with pierce_remaining 0 overlapping it, one
\* collision pass removes the enemy, sets score to 1 and kills_this_level to
\* 1, removes the bullet, and adds either no coin or exactly one coin at the
\* enemy's position.
C15_OnePassFirstKill ==
    (FirstPassDone /\ hist.start[1] = "first" /\ hist.start[2] = 1 /\ hist.start[4] = 0) =>
        /\ enemies = <<>>
        /\ score = 1
        /\ spawner.kills_this_level = 1
        /\ bullets = <<>>
        /\ coins = <<>> \/ (Len(coins) = 1 /\ coins[1].position = PassEnemyAt)

\* the first kill of a match has been made by a bullet without pierce, and it
\* dropped a coin
C15_FirstKillDroppedCoin ==
    /\ FirstPassDone
    /\ hist.start[1] = "first" /\ hist.start[2] = 1 /\ hist.start[4] = 0
    /\ score = 1
    /\ Len(coins) = 1

\* the hits the bullets of a list have made
RECURSIVE HitsMade(_, _)
HitsMade(bs, i) == IF i > Len(bs) THEN 0 ELSE bs[i].hits + HitsMade(bs, i + 1)

RestoredFields ==
    { "coins", "armor", "magnet_radius", "max_health_bonus",
      "speed_multiplier", "fire_rate_multiplier",
      "bullet_size_level", "bullet_pierce_level", "bullet_damage_level", "coin_gain_level",
      "dodge_level", "regen_level", "lifesteal_level", "crit_level", "aoe_on_kill_level",
      "magnet_bonus_level", "bullet_speed_level" }

\* C17: saving the state snapshot and loading it into a new run restores
\* player.coins, armor, magnet_radius, max_health_bonus, both multipliers, the
\* six shop-tier counters and every upgrade level field of Player (dodge,
\* regen, lifesteal, crit, AOE-on-kill, magnet-bonus and bullet-speed levels
\* included) to the values they had when saved: a new run that loads the
\* snapshot of the player and shop counters as they are has them unchanged.
C17_SnapshotRestoresPlayer ==
    [][(MatchEnds /\ save_file' = Snapshot(player, shop)) =>
         /\ \A f \in RestoredFields : player'[f] = player[f]
         /\ shop' = shop]_vars

\* a match has just been set up from the save file (lines 682-731)
MatchStarted ==
    /\ pc = "frame"
    /\ spawner = NewSpawner
    /\ score = 0
    /\ enemies = <<>>
    /\ Len(save_file) = 1

\* C18: loading a snapshot never ends the run: every field missing from the
\* snapshot takes its baseline value (0 for counters and levels, 1.0 for
\* multipliers, 60 for magnet radius), and after a load player.health equals
\* player.max_health() computed from the loaded max_health_bonus.
C18_LoadGivesDefaultsAndFullHealth ==
    MatchStarted =>
        LET data == save_file[1]
            missing(f) == f \notin DOMAIN data
        IN  /\ running
            /\ \A f \in {"coins", "bullet_size_level", "bullet_pierce_level", "max_health_bonus",
                          "armor", "bullet_damage_level", "coin_gain_level"} :
                  missing(f) => player[f] = 0
            /\ \A f \in {"speed_multiplier", "fire_rate_multiplier"} :
                  missing(f) => player[f] = 1000
            /\ missing("magnet_radius") => player.magnet_radius = 60
            /\ \A f \in DOMAIN shop : missing(f) => shop[f] = 0
            /\ player.health = max_health(player)

(***************************************************************************)
(* Player.update with passive regeneration                                 *)
(***************************************************************************)
\* dt of the updates: regular frames, slow frames and stalls of the loop
\* (dt_ms = clock.tick(FPS) is the time since the last frame, line 769)
RegenDtSet == {16, 400, 2600, 5200}

\* a player who bought regen_level L in the item shop and stands at health h,
\* the regen accumulator at 0
Regenerating(L, h) ==
    /\ MatchAt([NewPlayer(Center) EXCEPT !.regen_level = L, !.health = h],
               NewShop, NewSpawner, 0, <<>>, <<>>, <<>>, <<>>, <<>>)
    /\ hist = [NewHist EXCEPT !.start = <<L, h>>]

\* player.update(dt, keys) (line 1010); hist.landed sums the dt of the calls
CallRegenUpdate ==
    /\ hist.calls < MaxCalls
    /\ is_alive(player)
    /\ \E d \in RegenDtSet :
         /\ dt' = d
         /\ player' = PlayerUpdate(player, d, Vec(0, 0))
         /\ hist' = [hist EXCEPT !.calls = hist.calls + 1, !.landed = hist.landed + d]
    /\ UNCHANGED <<pc, ticks, bullets, enemies, coins, explosions, enemy_bullets, spawner,
                   score, uiVars, shop, loopVars>>

InitRegen == \E L \in {0, 1, 2, 5, 6}, h \in {3, 4, PLAYER_MAX_HEALTH} : Regenerating(L, h)

SpecRegen == InitRegen /\ [][CallRegenUpdate]_vars

(***************************************************************************)
(* Player.on_kill with lifesteal                                           *)
(***************************************************************************)
\* a player who bought lifesteal_level L in the item shop and stands at
\* health h, no kill counted yet
Stealing(L, h) ==
    /\ MatchAt([NewPlayer(Center) EXCEPT !.lifesteal_level = L, !.health = h],
               NewShop, NewSpawner, 0, <<>>, <<>>, <<>>, <<>>, <<>>)
    /\ hist = [NewHist EXCEPT !.start = <<L, h>>]

\* player.on_kill() (line 1065)
CallOnKill ==
    /\ hist.calls < MaxCalls
    /\ is_alive(player)
    /\ player' = on_kill(player)
    /\ hist' = [hist EXCEPT !.calls = hist.calls + 1]
    /\ UNCHANGED nonPlayer

InitLifesteal == \E L \in 0..7, h \in {2, 4, PLAYER_MAX_HEALTH} : Stealing(L, h)

SpecLifesteal == InitLifesteal /\ [][CallOnKill]_vars

(***************************************************************************)
(* Player.try_shoot                                                        *)
(***************************************************************************)
\* the mouse positions of the calls: on the player, to the right, above
ShootAims == {Center, Vec(WINDOW_WIDTH, WINDOW_HEIGHT \div 2), Vec(WINDOW_WIDTH \div 2, 0)}

\* a player in the centre with pierce and damage levels from the shop, one
\* fire-rate purchase or none, and a cooldown that runs, has run out or has
\* been taken below 0 by the last update
Shooting(cd, pierce, dmg, rate) ==
    /\ MatchAt([NewPlayer(Center) EXCEPT !.shoot_cooldown = cd,
                                         !.bullet_pierce_level = pierce,
                                         !.bullet_damage_level = dmg,
                                         !.fire_rate_multiplier = rate],
               NewShop, NewSpawner, 0, <<>>, <<>>, <<>>, <<>>, <<>>)
    /\ hist = [NewHist EXCEPT !.start = <<cd, pierce, dmg, rate>>]

\* bullet = player.try_shoot(mouse_pos); if bullet: bullets.append(bullet)
\* (lines 1012-1014); hist.request keeps the aim and whether a bullet came
CallTryShoot ==
    /\ hist.calls < MaxMoves
    /\ is_alive(player)
    /\ \E aim \in ShootAims :
         LET fire == CanShoot(player, aim)
         IN  /\ player' = IF fire THEN AfterShoot(player) ELSE player
             /\ bullets' = IF fire THEN Append(bullets, NewBullet(player, aim)) ELSE bullets
             /\ hist' = [hist EXCEPT !.calls = hist.calls + 1,
                                     !.request = <<aim, fire>>,
                                     !.log = <<"try_shoot">>]
    /\ UNCHANGED <<pc, dt, ticks, enemies, coins, explosions, enemy_bullets, spawner,
                   score, uiVars, shop, loopVars>>

\* player.update(dt, keys) between two shots (line 1010)
CallUpdateBetweenShots ==
    /\ is_alive(player)
    /\ \E d \in DtSet : player' = PlayerUpdate(player, d, Vec(0, 0))
    /\ hist' = [hist EXCEPT !.log = <<"player.update">>]
    /\ UNCHANGED nonPlayer

InitShoot ==
    \E cd \in {-4, 0, 60}, pierce \in {0, 2}, dmg \in {0, 3}, rate \in {1000, 1150} :
        Shooting(cd, pierce, dmg, rate)

NextShoot ==
    \/ CallTryShoot
    \/ CallUpdateBetweenShots

SpecShoot == InitShoot /\ [][NextShoot]_vars

(***************************************************************************)
(* Events in the open tiered shop                                          *)
(***************************************************************************)
\* the purchase keys and the page keys of the shop, and its six buttons
TierKeySet == {"1", "2", "3", "4", "5", "6", "7", "8", "RIGHT", "LEFT"}
TierClickSet == 0..5

TierKeyEvent == \E key \in TierKeySet : KeyDown(key)
TierClickEvent == \E idx \in TierClickSet : ShopClick(idx)

\* The event loop of a frame of level 1, the shop opened with B on page 0.
\* The player, hit twice, has bought n levels of item before (in this match
\* or, for the six counters of save.json, in earlier ones) and holds purse
\* coins.
AtCounter(item, n, purse) ==
    LET rich == [NewPlayer(Center) EXCEPT !.coins = 1000, !.health = 3]
        ps == AfterPurchases(rich, NewShop, item, n)
        p == [ps[1] EXCEPT !.coins = purse]
        sp == [NewSpawner EXCEPT !.timer = 600, !.accel_timer = 4000, !.kills_this_level = 5]
    IN  /\ pc = "events"
        /\ dt = 16
        /\ ticks = 1
        /\ player = p
        /\ bullets = <<>>
        /\ enemies = << PlainAt(Vec(900, 100), 80, 1) >>
        /\ coins = <<>>
        /\ explosions = <<>>
        /\ enemy_bullets = <<>>
        /\ spawner = sp
        /\ score = 5
        /\ shop_open = TRUE
        /\ shop_page = 0
        /\ paused = FALSE
        /\ item_shop_open = FALSE
        /\ item_click_block = FALSE
        /\ console_open = FALSE
        /\ admin_panel_open = FALSE
        /\ admin_authenticated = FALSE
        /\ console_text = <<>>
        /\ admin_input = <<>>
        /\ running = TRUE
        /\ save_file = Snapshot(p, ps[2])
        /\ nevents = 0
        /\ shop = ps[2]
        /\ ei = 1
        /\ alive_enemies = <<>>
        /\ hist = [NewHist EXCEPT !.start = <<item, n, purse>>]

InitCounter ==
    \E item \in TierItems, last \in BOOLEAN, purse \in {9, 400} :
        AtCounter(item, IF last THEN Len(CostTable(item)) - 1 ELSE 0, purse)

NextCounter ==
    \/ TierKeyEvent
    \/ TierClickEvent

SpecCounter == InitCounter /\ [][NextCounter]_vars

(***************************************************************************)
(* Frames with the item shop                                               *)
(***************************************************************************)
\* Level 1 of a run started without save.json.  The player has 300 coins left
\* after buying dmg levels of bullet damage in the tiered shop, holds armor
\* points bought in the item shop, has been hit twice, and has opened the
\* item shop with N (open) or plays on; one enemy walks in from the right
\* and a bullet is about to hit it.
AtItemShop(open, dmg, armor) ==
    LET rich == [NewPlayer(Center) EXCEPT !.coins = 1000, !.health = 3, !.armor = armor]
        ps == AfterPurchases(rich, NewShop, "dmg", dmg)
        p == [ps[1] EXCEPT !.coins = 300]
        sp == [NewSpawner EXCEPT !.timer = 600, !.accel_timer = 4000, !.kills_this_level = 5]
    IN  /\ pc = "frame"
        /\ dt = 0
        /\ ticks = 0
        /\ player = p
        /\ bullets = << FlyingBullet(p, Vec(870, 270), Vec(WINDOW_WIDTH, 270), 650) >>
        /\ enemies = << PlainAt(Vec(900, 270), 80, 1) >>
        /\ coins = <<>>
        /\ explosions = <<>>
        /\ enemy_bullets = <<>>
        /\ spawner = sp
        /\ score = 5
        /\ shop_open = FALSE
        /\ shop_page = 0
        /\ paused = FALSE
        /\ item_shop_open = open
        /\ item_click_block = FALSE
        /\ console_open = FALSE
        /\ admin_panel_open = FALSE
        /\ admin_authenticated = FALSE
        /\ console_text = <<>>
        /\ admin_input = <<>>
        /\ running = TRUE
        /\ save_file = <<>>
        /\ nevents = 0
        /\ shop = ps[2]
        /\ ei = 1
        /\ alive_enemies = <<>>
        /\ hist = [NewHist EXCEPT !.start = <<open, dmg, armor>>]

InitItems ==
    \E open \in BOOLEAN, dmg \in {0, 5}, armor \in {0, 1} : AtItemShop(open, dmg, armor)

SpecItems == InitItems /\ [][Next]_vars

(***************************************************************************)
(* Frames with coins and enemy bullets arriving at the player              *)
(***************************************************************************)
\* Level 2.  The player stands in the centre, hit twice; inv is what is left
\* of the invulnerability of the last hit.  Two coins of values 1 and 2 roll
\* toward the player and one lies far off; two bullets of a shooter are
\* about to reach the player and a third one has missed; an enemy walks in
\* from the right and a bullet of the player is about to hit it.
Harvest(inv) ==
    LET p == [NewPlayer(Center) EXCEPT !.health = 3, !.coins = 10, !.invuln_timer = inv,
                                       !.shoot_cooldown = 100]
        sp == [NewSpawner EXCEPT !.timer = 500,
                                 !.current_interval = Tighten(IntervalAfter(4), BOSS_KILL_FACTOR),
                                 !.accel_timer = 3000,
                                 !.level = 2,
                                 !.kills_this_level = 12]
    IN  /\ MatchAt(p, NewShop, sp, 42,
                   << PlainAt(Vec(900, 100), 84, 1) >>,
                   << FlyingBullet(p, Vec(870, 100), Vec(WINDOW_WIDTH, 100), 650) >>,
                   << NewCoin(Vec(507, 270), 1, Vec(-100, 0)),
                      NewCoin(Vec(480, 242), 2, Vec(0, 150)),
                      NewCoin(Vec(600, 400), 1, Vec(0, 0)) >>,
                   << [NewEnemyBullet(Vec(460, 270), Vec(232, 0)) EXCEPT !.lifetime = 1900],
                      [NewEnemyBullet(Vec(480, 249), Vec(0, 232)) EXCEPT !.lifetime = 1700],
                      [NewEnemyBullet(Vec(300, 100), Vec(-232, 0)) EXCEPT !.lifetime = 2500] >>,
                   Snapshot(p, NewShop))
        /\ hist = [NewHist EXCEPT !.start = <<inv>>]

InitHarvest == \E inv \in {0, 500} : Harvest(inv)

SpecHarvest == InitHarvest /\ [][Next]_vars

(***************************************************************************)
(* Regular spawns at several levels: calls of spawn_enemy                  *)
(***************************************************************************)
\* levels of the spawner: the first, the levels around the steps of the two
\* health formulas, and level 12 (level 2 raised by the command "level")
SpawnLevels == {1, 2, 3, 4, 7, 12}

\* a match at level lvl whose spawn timer has run out (line 1029); the spawn
\* interval is at its floor
Hatching(lvl) ==
    /\ MatchAt(NewPlayer(Center), NewShop,
               [NewSpawner EXCEPT !.level = lvl,
                                  !.timer = -6,
                                  !.current_interval = MIN_SPAWN_INTERVAL,
                                  !.accel_timer = 3000],
               0, <<>>, <<>>, <<>>, <<>>, <<>>)
    /\ hist = [NewHist EXCEPT !.start = <<lvl>>]

\* enemies.append(spawner.spawn_enemy()) and the timer reset (lines 1029-1031)
CallSpawnEnemy ==
    /\ hist.calls < MaxCalls
    /\ spawner.timer <= 0
    /\ \E side \in SideSet, along \in AlongSet, base \in SpeedSet, shooter \in BOOLEAN :
          enemies' = Append(enemies, spawn_enemy(spawner, side, along, base, shooter))
    /\ spawner' = [spawner EXCEPT !.timer = spawner.current_interval]
    /\ hist' = [hist EXCEPT !.calls = hist.calls + 1, !.log = <<"spawn_enemy">>]
    /\ UNCHANGED <<pc, dt, ticks, player, bullets, coins, explosions, enemy_bullets,
                   score, uiVars, shop, loopVars>>

\* spawner.update(dt) until the spawn timer runs out again (line 1028)
CallUpdateBetweenSpawns ==
    /\ hist.calls < MaxCalls
    /\ spawner.timer > 0
    /\ \E d \in DtSet : spawner' = SpawnerUpdate(spawner, d)
    /\ hist' = [hist EXCEPT !.calls = hist.calls + 1, !.log = <<"spawner.update">>]
    /\ UNCHANGED nonSpawner

InitHatch == \E lvl \in SpawnLevels : Hatching(lvl)

NextHatch ==
    \/ CallSpawnEnemy
    \/ CallUpdateBetweenSpawns

SpecHatch == InitHatch /\ [][NextHatch]_vars

(***************************************************************************)
(* Frames in which the kill count of a level reaches the boss threshold    *)
(***************************************************************************)
\* Level lvl, `short` kills before the boss: two plain enemies walk towards
\* the player, each with a bullet about to reach it.
GateEve(lvl, short) ==
    LET p == [NewPlayer(Center) EXCEPT !.health = 3, !.coins = 4, !.shoot_cooldown = 100]
        sp == [NewSpawner EXCEPT !.timer = 700,
                                 !.current_interval = MIN_SPAWN_INTERVAL,
                                 !.accel_timer = 8000,
                                 !.level = lvl,
                                 !.kills_this_level = KillsNeeded(lvl) - short]
    IN  /\ MatchAt(p, NewShop, sp, 100,
                   << PlainAt(Vec(560, 270), 80, 1), PlainAt(Vec(620, 270), 80, 1) >>,
                   << FlyingBullet(p, Vec(546, 270), Vec(WINDOW_WIDTH, 270), 110),
                      FlyingBullet(p, Vec(606, 270), Vec(WINDOW_WIDTH, 270), 210) >>,
                   <<>>, <<>>, Snapshot(p, NewShop))
        /\ hist = [NewHist EXCEPT !.start = <<lvl, short>>]

InitGate == \E lvl \in {1, 2, 3}, short \in {1, 2, 3} : GateEve(lvl, short)

SpecGate == InitGate /\ [][Next]_vars

(***************************************************************************)
(* The loop over the enemies with a Shooter in it                          *)
(***************************************************************************)
\* frame times: a frame at 60 FPS, a slow frame, and a frame longer than
\* every cooldown (clock.tick is not capped, line 770)
VolleyDtSet == {16, 400, 1500}

\* a Shooter and a plain enemy spawned at level lvl on the right edge
Volley(lvl) ==
    LET sp == [NewSpawner EXCEPT !.level = lvl,
                                 !.timer = 200,
                                 !.current_interval = MIN_SPAWN_INTERVAL,
                                 !.accel_timer = 3000]
    IN  /\ MatchAt(NewPlayer(Center), NewShop, sp, 0,
                   << spawn_enemy(sp, "right", 270, ENEMY_SPEED_MIN, TRUE),
                      spawn_enemy(sp, "right", 100, ENEMY_SPEED_MAX, FALSE) >>,
                   <<>>, <<>>, <<>>, <<>>)
        /\ hist = [NewHist EXCEPT !.start = <<lvl>>]

\* lines 1033-1040 of one frame; hist.landed sums the dt of the frames since
\* the last shot
CallEnemiesLoop ==
    /\ hist.calls < MaxCalls
    /\ \E d \in VolleyDtSet :
         LET shots == ShotsFired(enemies, d, player.position, spawner.level, 1)
         IN  /\ dt' = d
             /\ enemies' = [i \in 1..Len(enemies) |-> MovedEnemy(enemies[i], d, player.position)]
             /\ enemy_bullets' = enemy_bullets \o shots
             /\ hist' = [hist EXCEPT !.calls = hist.calls + 1,
                                     !.landed = IF shots = <<>> THEN hist.landed + d ELSE 0,
                                     !.log = <<"enemies.update">>]
    /\ UNCHANGED <<pc, ticks, player, bullets, coins, explosions, spawner, score,
                   uiVars, shop, loopVars>>

InitVolley == \E lvl \in {2, 12} : Volley(lvl)

SpecVolley == InitVolley /\ [][CallEnemiesLoop]_vars

(***************************************************************************)
(* A boss fight with the console at hand                                   *)
(***************************************************************************)
\* F1 opens the console, a typed command and RETURN run it
PurgeKeySet == {"F1", "killall", "level", "RETURN"}

PurgeKeyEvent == \E key \in PurgeKeySet : KeyDown(key)

InitPurge == \E hp \in {1, 2} : BossFight(hp, 0)

NextPurge ==
    \/ PurgeKeyEvent
    \/ StartFrame
    \/ PlayerPhase
    \/ BulletsPhase
    \/ EnemyBulletsPhase
    \/ SpawnerPhase
    \/ EnemiesPhase
    \/ CoinsPhase
    \/ ExplosionsPhase
    \/ BulletVsEnemy
    \/ PurgeAfterPass
    \/ BossGate
    \/ EnemiesVsPlayer
    \/ EnemyBulletsVsPlayer
    \/ Pickup
    \/ Render
    \/ EndFrame

SpecPurge == InitPurge /\ [][NextPurge]_vars

(***************************************************************************)
(* The player in a swarm: the collision blocks of successive frames        *)
(***************************************************************************)
\* frame times: a frame at 60 FPS, a slow frame, and a frame longer than the
\* invulnerability of a hit
SwarmDtSet == {16, 400, 700}

\* two plain enemies stand on the player and two enemy bullets have reached
\* it, a third bullet is on its way
Swarm(armor, dodge) ==
    LET p == [NewPlayer(Center) EXCEPT !.armor = armor, !.health = 3, !.dodge_level = dodge,
                                       !.coins = 30]
        sp == [NewSpawner EXCEPT !.timer = 400, !.accel_timer = 9000, !.kills_this_level = 11]
    IN  /\ MatchAt(p, NewShop, sp, 11,
                   << PlainAt(Vec(483, 270), 80, 1), PlainAt(Vec(480, 265), 140, 1) >>,
                   <<>>, <<>>,
                   << [NewEnemyBullet(Vec(470, 270), Vec(226, 0)) EXCEPT !.lifetime = 1900],
                      [NewEnemyBullet(Vec(480, 280), Vec(0, -226)) EXCEPT !.lifetime = 1700],
                      [NewEnemyBullet(Vec(300, 270), Vec(226, 0)) EXCEPT !.lifetime = 2400] >>,
                   <<>>)
        /\ hist = [NewHist EXCEPT !.start = <<armor, dodge>>]

\* player.update(dt, keys) of a frame (line 1010); hist.landed sums the dt of
\* the calls since the last damaging hit
CallSwarmUpdate ==
    /\ hist.calls < MaxCalls
    /\ is_alive(player)
    /\ hist.log # <<"player.update">>
    /\ \E d \in SwarmDtSet :
         /\ player' = PlayerUpdate(player, d, Vec(0, 0))
         /\ hist' = [hist EXCEPT !.calls = hist.calls + 1,
                                 !.landed = hist.landed + d,
                                 !.log = <<"player.update">>]
    /\ UNCHANGED nonPlayer

\* lines 1112-1128 of a frame: enemies vs player, then enemy bullets vs
\* player; hist.request holds "hit" once a hit has taken a point
CallCollisionBlocks ==
    /\ hist.calls < MaxCalls
    /\ is_alive(player)
    /\ hist.log = <<"player.update">>
    /\ \E rolls \in [1..Len(enemies) -> BOOLEAN], eb_rolls \in [1..Len(enemy_bullets) -> BOOLEAN] :
         LET p1 == HitsBy(player, enemies, rolls, 1)
             p2 == HitsBy(p1, enemy_bullets, eb_rolls, 1)
             hurt == p2.armor + p2.health < player.armor + player.health
         IN  /\ player' = p2
             /\ enemies' = [i \in 1..Len(enemies) |-> PushedBack(enemies[i], player)]
             /\ enemy_bullets' = SelectSeq(enemy_bullets, LAMBDA eb : ~Touches(p1, 0, eb))
             /\ hist' = [hist EXCEPT !.calls = hist.calls + 1,
                                     !.landed = IF hurt THEN 0 ELSE hist.landed,
                                     !.request = IF hurt THEN <<"hit">> ELSE hist.request,
                                     !.log = <<"collisions">>]
    /\ UNCHANGED <<pc, dt, ticks, bullets, coins, explosions, spawner, score,
                   uiVars, shop, loopVars>>

InitSwarm == \E armor \in {0, 1}, dodge \in {0, 1} : Swarm(armor, dodge)

NextSwarm ==
    \/ CallSwarmUpdate
    \/ CallCollisionBlocks

SpecSwarm == InitSwarm /\ [][NextSwarm]_vars

(***************************************************************************)
(* Frames with the keys of the pause, the shops and the panels             *)
(***************************************************************************)
PanelKeySet == {"ESC", "p", "b", "n", "F1", "F2"}

PanelKeyEvent == \E key \in PanelKeySet : KeyDown(key)

InitPanels == Shopping(12, 0)

NextPanels ==
    \/ PanelKeyEvent
    \/ StartFrame
    \/ PlayerPhase
    \/ BulletsPhase
    \/ EnemyBulletsPhase
    \/ SpawnerPhase
    \/ EnemiesPhase
    \/ CoinsPhase
    \/ ExplosionsPhase
    \/ BulletVsEnemy
    \/ PurgeAfterPass
    \/ BossGate
    \/ EnemiesVsPlayer
    \/ EnemyBulletsVsPlayer
    \/ Pickup
    \/ Render
    \/ EndFrame

SpecPanels == InitPanels /\ [][NextPanels]_vars

(***************************************************************************)
(* Frames with the player at the left wall                                 *)
(***************************************************************************)
\* Level 2.  The player stands against the left wall and fires to the right;
\* a shooter enemy, its shot due, has walked up to the player (sx = 60) or
\* came from the left side, where enemies spawn at x = -28 (line 360), and
\* was pushed back by a contact (line 1119) (sx = -26).  Of the player's
\* bullets one is leaving the bounds, one is at the end of its lifetime and
\* one is on its way; of the enemy bullets one is at the end of its lifetime
\* and one flies along the wall.
WallDuel(sx) ==
    LET p == [NewPlayer(Vec(PLAYER_RADIUS, 270)) EXCEPT !.health = 3, !.coins = 4,
                                                        !.shoot_cooldown = 60]
        sp == [NewSpawner EXCEPT !.timer = 700,
                                 !.current_interval = Tighten(IntervalAfter(4), BOSS_KILL_FACTOR),
                                 !.accel_timer = 2000,
                                 !.level = 2,
                                 !.kills_this_level = 39]
        shooter == [NewShooter(Vec(sx, 270), 80, ENEMY_RADIUS + 2, 4, 1480)
                      EXCEPT !.shoot_timer = 10, !.health = 1]
    IN  /\ MatchAt(p, NewShop, sp, 60,
                   << shooter >>,
                   << FlyingBullet(p, Vec(1005, 270), Vec(WINDOW_WIDTH + 100, 270), 900),
                      FlyingBullet(p, Vec(400, 100), Vec(WINDOW_WIDTH, 100), 1190),
                      FlyingBullet(p, Vec(36, 270), Vec(WINDOW_WIDTH, 270), 30) >>,
                   <<>>,
                   << [NewEnemyBullet(Vec(300, 400), Vec(-232, 0)) EXCEPT !.lifetime = 10],
                      [NewEnemyBullet(Vec(-15, 100), Vec(-232, 0)) EXCEPT !.lifetime = 2000] >>,
                   Snapshot(p, NewShop))
        /\ hist = [NewHist EXCEPT !.start = <<sx>>]

InitWall == \E sx \in {-26, 60} : WallDuel(sx)

SpecWall == InitWall /\ [][Next]_vars

(***************************************************************************)
(* Player.update and Coin.update at the borders of the play rectangle.     *)
(* The player has walked to a border or stands in the centre; the coins    *)
(* were dropped by enemies killed at the borders (an enemy enters from     *)
(* outside the window, lines 353-366, so its coin can start outside).      *)
(***************************************************************************)
\* the key vectors Player.update can decode (lines 197-208)
MoveKeys == { Vec(a, b) : a \in {-1, 0, 1}, b \in {-1, 0, 1} }

\* where the player stands when the calls start
BorderSpots ==
    { Vec(PLAYER_RADIUS + 2, PLAYER_RADIUS + 2),
      Vec(WINDOW_WIDTH - PLAYER_RADIUS - 1, WINDOW_HEIGHT \div 2),
      Center }

\* coins as lines 1081 and 1089 create them: at the dead enemy's position,
\* with a velocity of at most 180 (boss) or 40 (regular) on each axis
BorderCoins ==
    << NewCoin(Vec(8, 30), 1, Vec(-40, 40)),
       NewCoin(Vec(-5, WINDOW_HEIGHT + 3), 1, Vec(-40, 40)),
       NewCoin(Vec(WINDOW_WIDTH - 8, 270), BOSS_COIN_VALUE, Vec(180, -180)) >>

AtBorder(spot) ==
    /\ MatchAt([NewPlayer(Center) EXCEPT !.position = spot],
               NewShop, NewSpawner, 0, <<>>, <<>>, BorderCoins, <<>>, <<>>)
    /\ hist = [NewHist EXCEPT !.start = <<spot>>]

\* player.update(dt, keys) with any keys held (line 1010)
CallPlayerMove ==
    /\ hist.calls < MaxMoves
    /\ is_alive(player)
    /\ \E d \in DtSet, move \in MoveKeys : player' = PlayerUpdate(player, d, move)
    /\ hist' = [hist EXCEPT !.calls = hist.calls + 1, !.log = <<"player.update">>]
    /\ UNCHANGED <<nonPlayer>>

\* c.update(dt, player.position, player.magnet_radius) for every coin
\* (lines 1042-1044)
CallCoinsUpdate ==
    /\ hist.calls < MaxMoves
    /\ \E d \in DtSet :
         /\ dt' = d
         /\ coins' = [i \in 1..Len(coins) |->
                        CoinUpdate(coins[i], d, player.position, player.magnet_radius)]
    /\ hist' = [hist EXCEPT !.calls = hist.calls + 1, !.log = <<"coins.update">>]
    /\ UNCHANGED <<pc, ticks, player, bullets, enemies, explosions, enemy_bullets,
                   spawner, score, uiVars, shop, loopVars>>

InitClamp == \E spot \in BorderSpots : AtBorder(spot)

NextClamp ==
    \/ CallPlayerMove
    \/ CallCoinsUpdate

SpecClamp == InitClamp /\ [][NextClamp]_vars

\* C19: once player.health reaches 0 the run is in a terminal game-over state:
\* player.is_alive() stays false in every later state of that run, until a
\* restart creates a new run.
C19_DeadUntilRestart ==
    [][(~is_alive(player) /\ is_alive(player')) => MatchEnds]_vars

\* the play rectangle inset by r on every side
InsetRect(pos, r) ==
    /\ r <= pos.x /\ pos.x <= WINDOW_WIDTH - r
    /\ r <= pos.y /\ pos.y <= WINDOW_HEIGHT - r

\* on one axis, a coin update either moved the coin freely (the new
\* coordinate is the old one plus the travel of the new velocity) or left the
\* velocity component at 0
FreeOrStopped(old, new, vel, d) ==
    \/ new = old + IDiv(vel * d, 1000)
    \/ vel = 0

CoinKept(c, cn, d) ==
    /\ InsetRect(cn.position, cn.radius)
    /\ FreeOrStopped(c.position.x, cn.position.x, cn.velocity.x, d)
    /\ FreeOrStopped(c.position.y, cn.position.y, cn.velocity.y, d)

\* C20: after every Player.update the player's centre lies within the play
\* rectangle inset by the player's radius; after every Coin.update the coin's
\* centre lies within the play rectangle inset by the coin's radius, and the
\* coin's velocity component is 0 on each axis on which it was clamped.
C20_UpdatesClampToWindow ==
    [][ /\ hist'.log = <<"player.update">> /\ hist'.calls > hist.calls
            => InsetRect(player'.position, player'.radius)
        /\ hist'.log = <<"coins.update">> /\ hist'.calls > hist.calls
            => \A i \in 1..Len(coins) : CoinKept(coins[i], coins'[i], dt') ]_vars

\* a coin update has put a coin on the left border with its horizontal
\* velocity zeroed and its vertical velocity kept, the player having been
\* stopped at the right border
C20_CoinStoppedAtBorder ==
    /\ hist.log = <<"coins.update">>
    /\ \E i \in 1..Len(coins) :
         /\ coins[i].position.x = coins[i].radius
         /\ coins[i].velocity.x = 0
         /\ coins[i].velocity.y # 0
    /\ player.position.x = WINDOW_WIDTH - player.radius
    /\ hist.start # <<player.position>>

\* the blocks of a tick after the two bullet updates (lines 1016-1024)
AfterBulletUpdates ==
    pc \in {"spawner", "enemies", "coins", "explosions", "bullets_vs_enemies", "boss_gate",
            "enemies_vs_player", "enemy_bullets_vs_player", "pickup"}

\* position within the play bounds expanded by margin
WithinMargin(pos, margin) ==
    /\ -margin <= pos.x /\ pos.x <= WINDOW_WIDTH + margin
    /\ -margin <= pos.y /\ pos.y <= WINDOW_HEIGHT + margin

\* every player bullet in the list passed the test at the update: it is within
\* the margin (nothing moves it after the update) and its lifetime is
\* positive, unless a hit of this tick's pass has spent it since (line 1100
\* sets the lifetime of a spent bullet to 0 until the cleanup of line 1106)
PlayerBulletsPass ==
    \A i \in 1..Len(bullets) :
        /\ WithinMargin(bullets[i].position, 50)
        /\ \/ bullets[i].lifetime > 0
           \/ pc = "bullets_vs_enemies" /\ bullets[i].hits > 0 /\ bullets[i].lifetime = 0

\* C21: after the update step of every tick the bullet list holds only player
\* bullets with lifetime > 0 and position within the play bounds expanded by
\* 50, and the enemy-bullet list only enemy bullets with lifetime > 0 and
\* position within the bounds expanded by 20, so that no bullet failing the
\* test is there for a collision test of that tick.
C21_OnlyLiveBulletsCollide ==
    AfterBulletUpdates =>
        /\ PlayerBulletsPass
        /\ \A i \in 1..Len(enemy_bullets) :
             /\ enemy_bullets[i].lifetime > 0
             /\ WithinMargin(enemy_bullets[i].position, 20)

\* C21 amended: as C21, except that an enemy bullet fired in this tick
\* (lines 1035-1040 run after the enemy-bullet update; its lifetime is still
\* the full 3.0 s) may lie outside the bounds expanded by 20.
C21_OnlyLiveOrFreshBulletsCollide ==
    AfterBulletUpdates =>
        /\ PlayerBulletsPass
        /\ \A i \in 1..Len(enemy_bullets) :
             /\ enemy_bullets[i].lifetime > 0
             /\ \/ WithinMargin(enemy_bullets[i].position, 20)
                \/ enemy_bullets[i].lifetime = ENEMY_BULLET_LIFETIME

\* the first tick from the wall has dropped two player bullets and an enemy
\* bullet at its update, and the enemy-bullet pass starts with a bullet just
\* fired from outside the bounds expanded by 20
C21_FreshBulletOutsideBounds ==
    /\ pc = "enemy_bullets_vs_player"
    /\ ticks = 1
    /\ hist.start = <<-26>>
    /\ Len(bullets) <= 2
    /\ \E i \in 1..Len(enemy_bullets) :
         /\ enemy_bullets[i].lifetime = ENEMY_BULLET_LIFETIME
         /\ ~WithinMargin(enemy_bullets[i].position, 20)
    /\ \A i \in 1..Len(enemy_bullets) : enemy_bullets[i].lifetime # 10 - dt

\* max(4.0, 12.0 - 1.6 * L) in ms
RegenEvery(L) == IF 12000 - 1600 * L > 4000 THEN 12000 - 1600 * L ELSE 4000

\* C22: with regen_level = L > 0 and health < max_health(), Player.update adds
\* dt to the regen accumulator; at the first update where the accumulator
\* reaches max(4.0, 12.0 - 1.6 * L) health increases by exactly 1 and the
\* accumulator becomes 0.  For L = 1, health 3 and max health 5 this happens
\* after 10.4 s of accumulated update time and not earlier.
C22_RegenHealsAtInterval ==
    /\ [][ (hist'.calls > hist.calls /\ player.regen_level > 0
               /\ player.health < PLAYER_MAX_HEALTH + player.max_health_bonus)
            => IF player.regen_timer + dt' >= RegenEvery(player.regen_level)
               THEN player'.health = player.health + 1 /\ player'.regen_timer = 0
               ELSE /\ player'.health = player.health
                    /\ player'.regen_timer = player.regen_timer + dt' ]_vars
    /\ [](hist.start = <<1, 3>> => (player.health = 3 <=> hist.landed < 10400))

\* the player of regen level 1 who started at health 3 has been healed to 4
\* by an update that brought the update time to 10.4 s or more
C22_HealedAfterInterval ==
    /\ hist.start = <<1, 3>>
    /\ player.health = 4
    /\ player.regen_timer = 0
    /\ hist.landed >= 10400
    /\ hist.landed - dt < 10400

\* max(1, 5 - L)
StealEvery(L) == IF 5 - L > 1 THEN 5 - L ELSE 1

\* C23: with lifesteal_level = L > 0, on_kill() heals exactly 1 health (never
\* above max_health()) on every max(1, 5 - L)-th call and resets the kill
\* counter to 0 at that call; with L = 0, on_kill() changes nothing.
C23_LifestealEveryNthKill ==
    [][ hist'.calls > hist.calls =>
          IF player.lifesteal_level = 0 THEN player' = player
          ELSE IF hist'.calls % StealEvery(player.lifesteal_level) = 0
               THEN /\ player'.lifesteal_kills = 0
                    /\ player'.health =
                         (IF player.health + 1 <= PLAYER_MAX_HEALTH + player.max_health_bonus
                          THEN player.health + 1 ELSE player.health)
                    /\ player' = [player EXCEPT !.lifesteal_kills = 0,
                                                !.health = player'.health]
               ELSE player' = [player EXCEPT !.lifesteal_kills = player.lifesteal_kills + 1]
      ]_vars

\* the fourth kill of a player with lifesteal level 1 has healed the player
\* from 4 to the maximum 5 and reset the counter
C23_FourthKillHealed ==
    /\ hist.start = <<1, 4>>
    /\ hist.calls = 4
    /\ player.health = PLAYER_MAX_HEALTH
    /\ player.lifesteal_kills = 0

\* C24: take_hit() called while invuln_timer > 0 changes no player state; a
\* dodged hit changes neither armor nor health and sets invuln_timer to 0.2;
\* every non-dodged, non-blocked hit sets invuln_timer to 0.6.
C24_TakeHitInvulnerability ==
    [][ hist'.calls > hist.calls =>
          IF player.invuln_timer > 0 THEN player' = player
          ELSE IF hist'.landed = hist.landed
               THEN /\ player'.armor = player.armor
                    /\ player'.health = player.health
                    /\ player'.invuln_timer = 200
               ELSE player'.invuln_timer = 600 ]_vars

\* a hit has been dodged: the first call on a player with a dodge level left
\* armor and health alone and started the short invulnerability
C24_FirstHitDodged ==
    /\ hist.calls = 1
    /\ hist.landed = 0
    /\ hist.start = <<2, 3, 1>>
    /\ player.invuln_timer = 200
    /\ player.armor = 2 /\ player.health = 3

\* a step that is a call of try_shoot
TryShootStep == hist'.calls > hist.calls /\ hist'.log = <<"try_shoot">>

\* C25: try_shoot returns no bullet and changes no state when shoot_cooldown
\* > 0 or the aim point coincides with the player position; on success it
\* returns one bullet with pierce_remaining = bullet_pierce_level and damage =
\* 1 + bullet_damage_level and sets shoot_cooldown to a positive value (at
\* least 0.02), so a second try_shoot with no update in between fails.
C25_TryShootContract ==
    [][ TryShootStep =>
          /\ IF player.shoot_cooldown > 0 \/ hist'.request[1] = player.position
             THEN /\ ~hist'.request[2]
                  /\ player' = player
                  /\ bullets' = bullets
             ELSE /\ hist'.request[2]
                  /\ Len(bullets') = Len(bullets) + 1
                  /\ SubSeq(bullets', 1, Len(bullets)) = bullets
                  /\ bullets'[Len(bullets')].pierce_remaining = player.bullet_pierce_level
                  /\ bullets'[Len(bullets')].damage = 1 + player.bullet_damage_level
                  /\ player'.shoot_cooldown >= 20
          /\ (hist.log = <<"try_shoot">> /\ hist.request[2]) =>
                (~hist'.request[2] /\ bullets' = bullets /\ player' = player) ]_vars

\* a shot with pierce 2 and damage 4 was fired and the next call, with no
\* update in between, returned nothing
C25_SecondShotRefused ==
    /\ hist.log = <<"try_shoot">>
    /\ hist.calls >= 2
    /\ ~hist.request[2]
    /\ hist.request[1] # player.position
    /\ Len(bullets) = 1
    /\ bullets[1].pierce_remaining = 2 /\ bullets[1].damage = 4
    /\ player.shoot_cooldown >= 20

\* the effect of a purchase of item at cost c on the player and the counters
PaidSpeed(c) ==
    /\ player' = [player EXCEPT !.coins = player.coins - c,
                                !.speed_multiplier = IDiv(player.speed_multiplier * 112, 100)]
    /\ shop' = [shop EXCEPT !.speed_levels = shop.speed_levels + 1]
PaidFirerate(c) ==
    /\ player' = [player EXCEPT !.coins = player.coins - c,
                                !.fire_rate_multiplier = IDiv(player.fire_rate_multiplier * 115, 100)]
    /\ shop' = [shop EXCEPT !.firerate_levels = shop.firerate_levels + 1]
PaidPierce(c) ==
    /\ player' = [player EXCEPT !.coins = player.coins - c,
                                !.bullet_pierce_level = player.bullet_pierce_level + 1]
    /\ shop' = [shop EXCEPT !.pierce_levels = shop.pierce_levels + 1]
PaidSize(c) ==
    /\ player' = [player EXCEPT !.coins = player.coins - c,
                                !.bullet_size_level = player.bullet_size_level + 1]
    /\ shop' = [shop EXCEPT !.size_levels = shop.size_levels + 1]
PaidMagnet(c) ==
    /\ player' = [player EXCEPT !.coins = player.coins - c,
                                !.magnet_radius = player.magnet_radius + 60]
    /\ shop' = [shop EXCEPT !.magnet_levels = shop.magnet_levels + 1]
PaidHp(c) ==
    /\ player' = [player EXCEPT !.coins = player.coins - c,
                                !.max_health_bonus = player.max_health_bonus + 1,
                                !.health =
                                    IF player.health + 1 <= PLAYER_MAX_HEALTH + player.max_health_bonus + 1
                                    THEN player.health + 1
                                    ELSE PLAYER_MAX_HEALTH + player.max_health_bonus + 1]
    /\ shop' = [shop EXCEPT !.hp_levels = shop.hp_levels + 1]
PaidDmg(c) ==
    /\ player' = [player EXCEPT !.coins = player.coins - c,
                                !.bullet_damage_level = player.bullet_damage_level + 1]
    /\ shop' = shop
PaidCoin(c) ==
    /\ player' = [player EXCEPT !.coins = player.coins - c,
                                !.coin_gain_level = player.coin_gain_level + 1]
    /\ shop' = shop

\* the cost the table tab holds for level lvl, 0 when the table is used up
TableCost(tab, lvl) == IF lvl < Len(tab) THEN tab[lvl + 1] ELSE 0

\* the step is a purchase of one tier at the table cost of its current level
TierPurchase ==
    \E c \in 1..player.coins :
        \/ c = TableCost(<<10, 20, 35, 55>>, shop.speed_levels) /\ PaidSpeed(c)
        \/ c = TableCost(<<12, 24, 40, 60, 85>>, shop.firerate_levels) /\ PaidFirerate(c)
        \/ c = TableCost(<<15, 30, 50>>, shop.pierce_levels) /\ PaidPierce(c)
        \/ c = TableCost(<<12, 24, 40>>, shop.size_levels) /\ PaidSize(c)
        \/ c = TableCost(<<10, 20, 32, 48>>, shop.magnet_levels) /\ PaidMagnet(c)
        \/ c = TableCost(<<20, 40, 70, 110, 160>>, shop.hp_levels) /\ PaidHp(c)
        \/ c = TableCost(<<18, 36, 60, 90, 130>>, player.bullet_damage_level) /\ PaidDmg(c)
        \/ c = TableCost(<<14, 28, 50>>, player.coin_gain_level) /\ PaidCoin(c)

\* C26: a successful tiered-shop purchase (cost > 0 and coins >= cost) lowers
\* player.coins by exactly the table cost at the current level, raises exactly
\* that one upgrade's level by 1 and applies its effect; a max-health
\* purchase adds 1 to max_health_bonus and heals 1 without health exceeding
\* max_health().  An event of the open shop is such a purchase or leaves the
\* player and the counters alone.
C26_TierPurchaseEffect ==
    [][ (nevents' > nevents /\ shop_open) =>
          \/ player' = player /\ shop' = shop
          \/ TierPurchase ]_vars

\* the key 6 has bought the first max-health level for 20 coins: the bonus is
\* 1 and the player healed from 3 to 4
C26_BoughtMaxHealth ==
    /\ hist.request = <<"key", "6">>
    /\ hist.start = <<"hp", 0, 400>>
    /\ nevents = 1
    /\ player.coins = 380
    /\ player.max_health_bonus = 1
    /\ player.health = 4
    /\ shop.hp_levels = 1

\* C27: in a run started without a snapshot no tiered upgrade level ever
\* exceeds the length of its cost table: speed <= 4, fire-rate <= 5, pierce
\* <= 3, bullet size <= 3, magnet <= 4, max-health <= 5, bullet damage <= 5,
\* coin-gain <= 3, after any sequence of purchases in either shop.
C27_TierLevelsWithinTables ==
    /\ shop.speed_levels <= 4
    /\ shop.firerate_levels <= 5
    /\ shop.pierce_levels <= 3 /\ player.bullet_pierce_level <= 3
    /\ shop.size_levels <= 3 /\ player.bullet_size_level <= 3
    /\ shop.magnet_levels <= 4
    /\ shop.hp_levels <= 5 /\ player.max_health_bonus <= 5
    /\ player.bullet_damage_level <= 5
    /\ player.coin_gain_level <= 3

\* int(base * (1 + 0.5 * lvl))
ScaledPrice(base, lvl) == (base * (2 + lvl)) \div 2

\* a step that handles a click on the item button kc
ItemClickStep(kc) ==
    /\ pc = "render" /\ item_shop_open
    /\ ~item_click_block /\ item_click_block'
    /\ hist'.request = <<"item", kc>>

\* a click on the button of a levelled item: the player pays the scaled price
\* of the level before the purchase and gains one level, or cannot pay it and
\* nothing changes
LevelledClick(kc, field, base) ==
    ItemClickStep(kc) =>
        IF player.coins >= ScaledPrice(base, player[field])
        THEN /\ player'.coins = player.coins - ScaledPrice(base, player[field])
             /\ player'[field] = player[field] + 1
        ELSE player' = player

\* a click that is paid for takes the price drawn on the button (the chest
\* may hand 5 to 12 coins back)
PaysDisplayedPrice(kc) ==
    (ItemClickStep(kc) /\ player' # player) =>
        \/ player'.coins = player.coins - ItemDisplayed(player, kc)
        \/ /\ kc = "P"
           /\ player'.coins - (player.coins - ItemDisplayed(player, kc)) \in 5..12

\* C28: for every item-shop upgrade with a level (dodge, regen, lifesteal,
\* crit, AOE-on-kill, magnet-bonus, bullet-speed) the amount deducted on
\* purchase is int(baseCost * (1 + 0.5 * level)) computed from the level
\* before the purchase, the purchase happens only when player.coins is at
\* least that amount, and for every item the amount charged equals the price
\* displayed for it.
C28_ItemPriceChargedAsDisplayed ==
    [][ /\ LevelledClick("Q", "dodge_level", 16)
        /\ LevelledClick("W", "regen_level", 20)
        /\ LevelledClick("E", "lifesteal_level", 28)
        /\ LevelledClick("R", "crit_level", 24)
        /\ LevelledClick("T", "aoe_on_kill_level", 30)
        /\ LevelledClick("Y", "magnet_bonus_level", 12)
        /\ LevelledClick("U", "bullet_speed_level", 14)
        /\ \A kc \in ItemKeys : PaysDisplayedPrice(kc) ]_vars

\* circle c overlaps the circle of radius r around the player
OverlapsPlayer(c, r) ==
    (c.position.x - player.position.x) * (c.position.x - player.position.x)
    + (c.position.y - player.position.y) * (c.position.y - player.position.y)
      <= (r + c.radius) * (r + c.radius)

RECURSIVE SumOfValues(_)
SumOfValues(cs) == IF cs = <<>> THEN 0 ELSE Head(cs).value + SumOfValues(Tail(cs))

\* the step is a collision pass that runs: the simulation is not suspended
\* and the player is alive (the guard of lines 1113, 1121 and 1131)
PassRuns(at) ==
    /\ pc = at
    /\ ~paused /\ ~shop_open /\ ~item_shop_open /\ ~console_open /\ ~admin_panel_open
    /\ player.health > 0

\* C29: in the coin pickup pass player.coins increases by exactly the sum of
\* the values of the coins overlapping the pickup circle (player radius + 4),
\* exactly those coins are removed, and every other coin stays in the
\* population.
C29_PickupTakesOverlappingCoins ==
    [][ PassRuns("pickup") =>
          /\ player'.coins = player.coins
               + SumOfValues(SelectSeq(coins, LAMBDA c : OverlapsPlayer(c, player.radius + 4)))
          /\ coins' = SelectSeq(coins, LAMBDA c : ~OverlapsPlayer(c, player.radius + 4)) ]_vars

\* the first pickup pass has taken the coins of values 1 and 2 and left the
\* third coin where it lay
C29_TwoCoinsPicked ==
    /\ pc = "render"
    /\ ticks = 1
    /\ player.coins = 13
    /\ Len(coins) = 1
    /\ coins[1].position = Vec(600, 400)

\* C30: in the enemy-bullet pass every enemy bullet overlapping the player is
\* removed, whether or not the player is invulnerable, and every
\* non-overlapping enemy bullet stays in the population.
C30_OverlappingEnemyBulletsRemoved ==
    [][ PassRuns("enemy_bullets_vs_player") =>
          enemy_bullets' =
              SelectSeq(enemy_bullets, LAMBDA eb : ~OverlapsPlayer(eb, player.radius)) ]_vars

\* the first enemy-bullet pass found the player invulnerable: both bullets
\* that reached the player are gone, the one that missed is left, and the
\* player has lost nothing
C30_BulletsRemovedWhileInvulnerable ==
    /\ pc = "pickup"
    /\ ticks = 1
    /\ hist.start = <<500>>
    /\ Len(enemy_bullets) = 1
    /\ enemy_bullets[1].position.y = 100
    /\ player.health = 3
    /\ player.invuln_timer > 0

(***************************************************************************)
(* C31: the level transition freezes the spawner                           *)
(***************************************************************************)
\* the spawner block of an unsuspended frame runs spawner.update
SpawnerBlockRuns == pc = "spawner" /\ Active

\* the enemies a step appended to the population
AddedEnemies == IF Len(enemies') > Len(enemies)
                THEN SubSeq(enemies', Len(enemies) + 1, Len(enemies'))
                ELSE <<>>

\* C31: while level_transition_timer > 0, spawner.update changes only
\* level_transition_timer (timer, accel_timer and current_interval keep
\* their values), and a tick that starts with level_transition_timer > 0
\* adds no regular enemy: whatever a step of such a tick appends is a boss
C31_TransitionFreezesSpawner ==
    [][ /\ (SpawnerBlockRuns /\ spawner.level_transition_timer > 0) =>
             /\ spawner' = [spawner EXCEPT !.level_transition_timer = @ - dt]
             /\ enemies' = enemies
        /\ (spawner.level_transition_timer > 0 /\ ~MatchEnds) =>
             \A i \in 1..Len(AddedEnemies) : AddedEnemies[i].is_boss ]_vars

\* the spawner block has run in a level transition whose end this frame reaches
C31_TransitionTicked ==
    /\ pc = "enemies"
    /\ Ran(hist.log, "spawner.update")
    /\ spawner.level_transition_timer \notin {0, LEVEL_TRANSITION_SEC}
    /\ spawner.timer = spawner.current_interval

(***************************************************************************)
(* C32: the enemies spawn_enemy returns                                    *)
(***************************************************************************)
\* the enemy the last call of spawn_enemy appended
Spawned == enemies'[Len(enemies')]

\* C32: spawn_enemy returns no Shooter at level 1; a plain enemy has
\* health = max_health = 1 + floor((level-1)/3), a Shooter has
\* health = max_health = 3 + floor(level/2) and a shoot timer equal to its
\* cooldown
C32_SpawnedEnemyHealth ==
    [][ (hist'.calls > hist.calls /\ hist'.log = <<"spawn_enemy">>) =>
          /\ Len(enemies') = Len(enemies) + 1
          /\ spawner.level = 1 => Spawned.kind = "plain"
          /\ Spawned.kind = "plain" =>
                /\ Spawned.health = 1 + ((spawner.level - 1) \div 3)
                /\ Spawned.max_health = Spawned.health
          /\ Spawned.kind = "shooter" =>
                /\ Spawned.health = 3 + (spawner.level \div 2)
                /\ Spawned.max_health = Spawned.health
                /\ Spawned.shoot_timer = Spawned.shoot_cooldown
                /\ Spawned.shoot_cooldown > 0 ]_vars

\* at level 7 a plain enemy of health 3 and a Shooter of health 6 were spawned
C32_BothKindsSpawned ==
    /\ hist.start = <<7>>
    /\ \E i, j \in 1..Len(enemies) :
          /\ enemies[i].kind = "plain" /\ enemies[i].health = 3
          /\ enemies[j].kind = "shooter" /\ enemies[j].health = 6

(***************************************************************************)
(* C33: the boss appears in the tick that completes the kills              *)
(***************************************************************************)
\* the blocks of a frame after the boss gate
AfterBossGate == pc \in {"enemies_vs_player", "enemy_bullets_vs_player", "pickup",
                         "render", "frame_end"}

\* C33: in the tick whose collision pass brings kills_this_level to at least
\* 30 + (level-1)*10 while boss_active is false, exactly one boss is
\* appended to the enemies in that same tick, with
\* health = max_health = 280 + 120*(level-1), and boss_active becomes true
C33_BossSpawnedInKillTick ==
    /\ [][ ( /\ pc = "boss_gate"
             /\ ~spawner.boss_active
             /\ spawner.kills_this_level >= 30 + (spawner.level - 1) * 10 ) =>
           /\ Len(enemies') = Len(enemies) + 1
           /\ SubSeq(enemies', 1, Len(enemies)) = enemies
           /\ enemies'[Len(enemies')].is_boss
           /\ enemies'[Len(enemies')].health = 280 + 120 * (spawner.level - 1)
           /\ enemies'[Len(enemies')].max_health = 280 + 120 * (spawner.level - 1)
           /\ Cardinality(BossesIn(enemies')) = 1
           /\ spawner'.boss_active ]_vars
    /\ []( (AfterBossGate /\ Ran(hist.log, "cleanup")) =>
              \/ spawner.boss_active
              \/ spawner.kills_this_level < 30 + (spawner.level - 1) * 10 )

\* at level 3 the pass made the fiftieth kill and the boss of 520 health stands
C33_LevelThreeBoss ==
    /\ AfterBossGate
    /\ Ran(hist.log, "cleanup")
    /\ hist.start[1] = 3
    /\ spawner.kills_this_level >= 50
    /\ spawner.boss_active
    /\ \E i \in 1..Len(enemies) : enemies[i].is_boss /\ enemies[i].health = 520

(***************************************************************************)
(* C34: the pierce count of a bullet only decreases                        *)
(***************************************************************************)
\* bullet new is bullet old one step later: the velocity, the size and the
\* pierce it was fired with are those of old, and it has not gained pierce
LaterBullet(old, new) ==
    /\ new.velocity = old.velocity
    /\ new.radius = old.radius
    /\ new.pierce0 = old.pierce0
    /\ new.hits >= old.hits
    /\ new.pierce_remaining <= old.pierce_remaining

\* C34: for every player bullet, pierce_remaining never increases and never
\* becomes negative over the bullet's life: a bullet that stays in the list
\* keeps or lowers its count, a fired bullet enters behind the others, and a
\* filter keeps the counts of the bullets it keeps
C34_PierceOnlyDecreases ==
    /\ [](\A i \in 1..Len(bullets) : bullets[i].pierce_remaining >= 0)
    /\ [][ /\ Len(bullets') = Len(bullets) =>
               \A i \in 1..Len(bullets) : LaterBullet(bullets[i], bullets'[i])
           /\ Len(bullets') > Len(bullets) =>
               \A i \in 1..Len(bullets) : LaterBullet(bullets[i], bullets'[i])
           /\ Len(bullets') < Len(bullets) =>
               \A j \in 1..Len(bullets') :
                  \E i \in j..Len(bullets) : LaterBullet(bullets[i], bullets'[j]) ]_vars

\* a bullet fired with one pierce has hit twice and holds no pierce
C34_PierceUsedUp ==
    \E i \in 1..Len(bullets) :
       /\ bullets[i].pierce0 = 1
       /\ bullets[i].hits = 2
       /\ bullets[i].pierce_remaining = 0

(***************************************************************************)
(* C35: when a Shooter fires                                               *)
(***************************************************************************)
\* the Shooter of the enemies loop
TheShooter == enemies[1]

\* C35: a Shooter fires an enemy bullet only in a tick where its shoot timer
\* is at or below 0 after its update, fires at most one bullet per tick, and
\* firing resets its timer to its cooldown, so two shots of the same Shooter
\* (and its spawn and first shot) are separated by at least its cooldown of
\* simulation time
C35_ShooterFiresAtCooldown ==
    /\ [][ /\ Len(enemy_bullets') <= Len(enemy_bullets) + 1
           /\ SubSeq(enemy_bullets', 1, Len(enemy_bullets)) = enemy_bullets
           /\ Len(enemy_bullets') > Len(enemy_bullets) =>
                /\ TheShooter.shoot_timer - dt' <= 0
                /\ TheShooter'.shoot_timer = TheShooter.shoot_cooldown
                /\ hist.landed + dt' >= TheShooter.shoot_cooldown
           /\ Len(enemy_bullets') = Len(enemy_bullets) =>
                TheShooter'.shoot_timer = TheShooter.shoot_timer - dt' ]_vars
    /\ [](TheShooter.kind = "shooter" /\ TheShooter.shoot_cooldown >= 900)

\* the Shooter of level 2 has fired twice
C35_SecondShot ==
    /\ hist.start = <<2>>
    /\ Len(enemy_bullets) = 2
    /\ hist.landed = 0

(***************************************************************************)
(* C36: boss_active and the boss in the population                         *)
(***************************************************************************)
\* C36: at the end of every tick, after any sequence of ticks and admin or
\* console operations, spawner.boss_active is true if and only if the enemy
\* population contains a boss
C36_BossActiveIffBossPresent ==
    pc = "frame_end" => (spawner.boss_active <=> BossesIn(enemies) # {})

(***************************************************************************)
(* C37: a click buys the row it is made on                                 *)
(***************************************************************************)
\* C37: a mouse click on shop button idx while page p is shown purchases the
\* upgrade displayed at row idx of page p and no other: on page 2, row 0
\* buys bullet damage and row 1 buys coin gain, never a page-1 upgrade
C37_ClickBuysDisplayedRow ==
    [][ (nevents' > nevents /\ hist'.request[1] = "click") =>
          \A item \in TierItems :
             item # hist'.request[2] =>
                TierLevel(player', shop', item) = TierLevel(player, shop, item) ]_vars

(***************************************************************************)
(* C38: one point per tick, hits 0.6 s apart                               *)
(***************************************************************************)
\* armor plus health
Points(p) == p.armor + p.health

\* the enemies and enemy bullets overlapping the player
Overlapping == {i \in 1..Len(enemies) : Touches(player, 0, enemies[i])}

OverlappingBullets == {i \in 1..Len(enemy_bullets) : Touches(player, 0, enemy_bullets[i])}

\* C38: within a single tick the player loses at most one point of armor
\* plus health in total, however many enemies and enemy bullets overlap the
\* player, and two damaging hits are always separated by at least 0.6
\* seconds of player update time
C38_OnePointPerTick ==
    [][ hist'.log = <<"collisions">> =>
          /\ Points(player') \in {Points(player), Points(player) - 1}
          /\ (Points(player') < Points(player) /\ hist.request = <<"hit">>) =>
                hist.landed >= 600 ]_vars

\* a second damaging hit has landed with several enemies on the player
C38_SecondHitInSwarm ==
    /\ hist.log = <<"collisions">>
    /\ hist.landed = 0
    /\ hist.request = <<"hit">>
    /\ Points(player) = 3 + hist.start[1] - 2
    /\ Cardinality(Overlapping) >= 2

(***************************************************************************)
(* C39: the shops and the pause exclude each other                         *)
(***************************************************************************)
\* C39: after any sequence of key events (ESC, P, B, N, F1, F2), shop_open
\* and item_shop_open are never both true, and paused is never true
\* together with shop_open or item_shop_open
C39_ShopsAndPauseExclusive ==
    /\ ~(shop_open /\ item_shop_open)
    /\ ~(paused /\ (shop_open \/ item_shop_open))

(***************************************************************************)
(* C40: cheats and the admin password                                      *)
(***************************************************************************)
\* a key event changed the player, the enemies or the spawner
CheatMutation ==
    /\ nevents' > nevents
    /\ hist'.request[1] = "key"
    /\ <<player', enemies', spawner'>> # <<player, enemies, spawner>>

\* C40: a cheat mutation of the run (health and armor set to 999, +1000
\* coins, level +10, clearing the enemies, full heal, +10 armor) takes effect
\* only after the admin password was entered correctly in the currently open
\* admin panel; closing or reopening the panel clears the authentication
C40_CheatsNeedAdminPassword ==
    /\ [][CheatMutation => (admin_panel_open /\ admin_authenticated)]_vars
    /\ [](admin_authenticated => admin_panel_open)
    /\ [][(~admin_panel_open /\ admin_panel_open') => ~admin_authenticated']_vars

====
